---- MODULE Spec2Model ----
(***************************************************************************)
(* Verification model of the lush line-editor prompt core.                 *)
(*                                                                         *)
(*   Spec     the async worker (src/src/lle/core/async_worker.c): one API  *)
(*            caller and the consumer thread, interleaved at the           *)
(*            granularity of the queue mutex's critical sections.          *)
(*   SpecGit  the timed subprocess runner (src/src/lle/core/git_command.c):*)
(*            the parent's system calls interleaved with the child.        *)
(*   SpecQuery   Spec with the worker's query functions called as well.    *)
(*   SpecInteg   reset tiers and error / panic tracking of the shell       *)
(*            integration (src/src/lle/lle_shell_integration.c).           *)
(*   SpecLife    init, shutdown, the at-exit handler and the prompt        *)
(*            variables of the shell integration.                          *)
(*   SpecExpand  one call of lle_prompt_expand                             *)
(*            (src/src/lle/prompt/prompt_expansion.c) per format, output   *)
(*            size and template outcome.                                   *)
(*   SpecColor   one hex colour escape per colour, depth and kind.         *)
(*   SpecPowerline  one left-to-right render                               *)
(*            (src/src/lle/prompt/powerline_renderer.c) per list of        *)
(*            segments, separator and output size.                         *)
(*   SpecStrip   one call of strip_ansi per segment content and per memory *)
(*            behind the content's terminator.                             *)
(*   SpecStatus  one call of lle_async_get_git_status per outcome of its   *)
(*            probes and per output of the branch and porcelain probes.    *)
(*   SpecLive    the async worker without destroy, the consumer thread     *)
(*            scheduled fairly.                                            *)
(*   SpecGitFair SpecGit with the parent's unblocked calls completing.     *)
(***************************************************************************)
EXTENDS Integers, Sequences, FiniteSets, TLC

(***************************************************************************)
(* Bounds of the model.                                                    *)
(***************************************************************************)
\* number of API calls the caller makes on one worker
MaxCalls == 7
\* queue depth limit; the header that sets the real value is not among the
\* sources, the model runs with a scaled-down depth
LLE_ASYNC_MAX_QUEUE_SIZE == 2

(***************************************************************************)
(* Result codes and request kinds.                                         *)
(***************************************************************************)
LLE_SUCCESS == "LLE_SUCCESS"
LLE_ERROR_INVALID_PARAMETER == "LLE_ERROR_INVALID_PARAMETER"
LLE_ERROR_INVALID_STATE == "LLE_ERROR_INVALID_STATE"
LLE_ERROR_RESOURCE_EXHAUSTED == "LLE_ERROR_RESOURCE_EXHAUSTED"
LLE_ERROR_SYSTEM_CALL == "LLE_ERROR_SYSTEM_CALL"
LLE_ERROR_FEATURE_NOT_AVAILABLE == "LLE_ERROR_FEATURE_NOT_AVAILABLE"

LLE_ASYNC_GIT_STATUS == "LLE_ASYNC_GIT_STATUS"
LLE_ASYNC_CUSTOM == "LLE_ASYNC_CUSTOM"
\* a type value outside the enumeration (the switch's default branch)
LLE_ASYNC_OTHER == "LLE_ASYNC_OTHER"
RequestTypes == {LLE_ASYNC_GIT_STATUS, LLE_ASYNC_CUSTOM, LLE_ASYNC_OTHER}

VARIABLES
    \* ---- lle_async_worker_t ----
    running, shutdown_requested, next_request_id,
    queue,              \* queue_head..queue_tail as a sequence of requests
    queue_size, total_requests, total_completed, total_timeouts,
    on_complete,        \* TRUE iff a completion callback is registered
    \* ---- consumer thread ----
    tpc,                \* position of lle_async_worker_thread
    treq,               \* its local `request`
    tresp,              \* its local `response`
    \* ---- API caller ----
    cpc,                \* "idle" or "joining" (blocked in pthread_join)
    lastOp, lastRet, ncalls,
    \* ---- lifetime ----
    destroyed,          \* lle_async_worker_destroy has returned
    uaf,                \* the thread touched the worker after it was freed
    \* ---- history ----
    accepted,           \* ids of accepted requests, in acceptance order
    freed,              \* ids freed by destroy without dispatch
    events,             \* dispatch-begin and callback events, in order
    at_shutdown,        \* ids that were queued when shutdown was requested
    nthreads,           \* consumer threads created and not yet joined
    unlocked            \* fields accessed without holding queue_mutex

workerVars == <<running, shutdown_requested, next_request_id, queue,
                queue_size, total_requests, total_completed, total_timeouts,
                on_complete, tpc, treq, tresp, cpc, lastOp, lastRet, ncalls,
                destroyed, uaf, accepted, freed, events, at_shutdown,
                nthreads, unlocked>>

VARIABLES
    \* ---- git_command_with_timeout: the parent ----
    gpc,                \* position of the parent in the call
    g_size,             \* output_size; 0 stands for no capture buffer
    g_pos,              \* bytes stored in the capture buffer
    g_errno,            \* the calling thread's errno
    g_result,           \* git_cmd_result_t being returned
    g_path,             \* which branch after select the call took
    g_calls,            \* history: kill / sleep / waitpid calls, in order
    \* ---- the pipe and the child ----
    pipe_bytes,         \* bytes written and not yet read
    child,              \* "none", "alive", "zombie" or "reaped"
    child_out,          \* the child still holds the pipe's write end
    child_todo,         \* bytes the child may still write
    child_ignores_term, \* the command traps or ignores SIGTERM
    child_status        \* how the child ended: "exit0", "exit1", "signaled"

gitVars == <<gpc, g_size, g_pos, g_errno, g_result, g_path, g_calls,
             pipe_bytes, child, child_out, child_todo, child_ignores_term,
             child_status>>

VARIABLES
    \* ---- lle_shell_integration_t, reached through g_lle_integration ----
    g_lle_integration,  \* TRUE iff the global pointer is set
    session_arena,      \* the three subsystems a reset must leave alone,
    event_hub,          \*   each TRUE iff it exists
    prompt_composer,
    editor,             \* integ->editor is set
    history_system,     \* integ->editor->history_system is set
    editor_initialized, history_initialized,    \* init_state bits
    error_count, ctrl_g_count, recovery_mode, recovery_count,
    hard_reset_count, nuclear_reset_count,
    last_ctrl_g_time_us, last_reset_time_us,
    \* ---- environment ----
    clock,              \* CLOCK_MONOTONIC, in scaled units
    clock_ok,           \* clock_gettime supports CLOCK_MONOTONIC
    home,               \* HOME is set in the environment
    \* ---- history ----
    reset_trace,        \* what the latest lle_hard_reset did, in order
    ilog                \* one record per call of an operation, in order

VARIABLES
    \* ---- process-wide state around the integration ----
    global_memory_pool,     \* the shell's memory pool exists
    atexit_registered,      \* static flag of lle_shell_integration_init
    shutdown_complete,      \* static flag of the at-exit handler
    g_registries_initialized,   \* segment and theme registries are up
    hooks_up,               \* shell-hook bridge: init called, not cleaned up
    watchdog_up,            \* watchdog subsystem is up
    PS1, PROMPT,            \* symbol table: a format, or "NULL" when unset
    uid_root,               \* getuid() == 0
    cfg_newline,            \* config.display_newline_before_prompt
    newline_before_prompt,  \* the composer's copy of that setting
    s_rendered_ps1,         \* the rendered prompt buffer
    \* ---- history ----
    n_instances,            \* session arenas created and not destroyed
    n_created,              \* instances created so far; the latest one's id
    n_atexit,               \* successful atexit() registrations
    torn,                   \* ids of the instances torn down, in order
    init_trace,             \* bring-up / tear-down steps of the latest init
    lastLife,               \* latest lifecycle or prompt call and its result
    nlife                   \* number of such calls

VARIABLES
    \* ---- one call of lle_prompt_expand ----
    ex_format,          \* the format string, as bytes (no NUL)
    ex_size,            \* output_size
    ex_template,        \* "none": no template context; "ok" / "fail": the
                        \* outcome of lle_template_evaluate
    ex_rc,              \* the result, "none" before the call
    ex_buf,             \* the output buffer and the position in it
    \* ---- one %F{#RRGGBB} or %K{#RRGGBB} escape ----
    col_hex,            \* the six hexadecimal digits, as values 0..15
    col_depth,          \* ctx->color_depth
    col_fg,             \* %F (TRUE) or %K (FALSE)
    col_out,            \* whether the escape was expanded, and the bytes emitted
    \* ---- one call of lle_powerline_render, left to right ----
    pl_segments,        \* the visible segments' rendered content and colours
    pl_separator,       \* theme->symbols.separator_left
    pl_size,            \* output_size
    pl_rc,              \* the result, "none" before the call
    pl_visible,         \* the segments as collected (ANSI stripped)
    pl_out,             \* the output buffer and the position in it
    \* ---- one call of strip_ansi ----
    st_src,             \* the string passed, as bytes (no NUL)
    st_out,             \* what the call did: the bytes stored in dst, the
                        \* last index of src it read, whether it left memory
    \* ---- one call of lle_async_get_git_status ----
    gs_outs,            \* what each probe returns if launched
    gs_branch,          \* what `branch --show-current` prints
    gs_porcelain,       \* what `status --porcelain` prints
    gs_status           \* the status data and the probes launched

stripVars == <<st_src, st_out>>
statusVars == <<gs_outs, gs_branch, gs_porcelain, gs_status>>

renderVars == <<ex_format, ex_size, ex_template, ex_rc, ex_buf, col_hex,
                col_depth, col_fg, col_out, pl_segments, pl_separator,
                pl_size, pl_rc, pl_visible, pl_out, stripVars, statusVars>>

lifeVars == <<renderVars,
              global_memory_pool, atexit_registered, shutdown_complete,
              g_registries_initialized, hooks_up, watchdog_up, PS1, PROMPT,
              uid_root, cfg_newline, newline_before_prompt, s_rendered_ps1,
              n_instances, n_created, n_atexit, torn, init_trace, lastLife,
              nlife>>

integVars == <<lifeVars, g_lle_integration, session_arena, event_hub, prompt_composer,
               editor, history_system, editor_initialized,
               history_initialized, error_count, ctrl_g_count, recovery_mode,
               recovery_count, hard_reset_count, nuclear_reset_count,
               last_ctrl_g_time_us, last_reset_time_us, clock, clock_ok, home,
               reset_trace, ilog>>

vars == <<workerVars, gitVars, integVars>>

(***************************************************************************)
(* git_cmd_result_t as seen by the worker: what one probe returned.        *)
(***************************************************************************)
GitOk == [exit_status |-> 0, timed_out |-> FALSE]
GitFail == [exit_status |-> 1, timed_out |-> FALSE]
GitTimeout == [exit_status |-> -1, timed_out |-> TRUE]
GitOutcomes == {GitOk, GitFail, GitTimeout}

\* the probes of lle_async_get_git_status, in program order
P_GITDIR == 1
P_BRANCH == 2
P_SHORT_DETACHED == 3
P_SYMREF == 4
P_SHORT == 5
P_PORCELAIN == 6
P_REVLIST == 7
P_GITDIR_STATE == 8
NumProbes == 8

run_git_in_dir(r) == ~r.timed_out /\ r.exit_status = 0

\* the probes the function launches, given what each probe would return
ProbesLaunched(outs) ==
    IF ~run_git_in_dir(outs[P_GITDIR]) THEN {P_GITDIR}
    ELSE {P_GITDIR, P_BRANCH, P_SYMREF, P_PORCELAIN, P_REVLIST, P_GITDIR_STATE}
         \cup (IF run_git_in_dir(outs[P_BRANCH]) THEN {} ELSE {P_SHORT_DETACHED})
         \cup (IF ~run_git_in_dir(outs[P_BRANCH])
                  /\ run_git_in_dir(outs[P_SHORT_DETACHED])
               THEN {} ELSE {P_SHORT})

\* mutation: a symbolic-ref that succeeds keeps what the branch probe set
DetachedAfterSymref_Confirm(after_branch, symref) ==
    IF run_git_in_dir(symref) THEN after_branch ELSE TRUE

\* status->is_detached once the `symbolic-ref HEAD` probe has run, given
\* what the branch probe left in it
DetachedAfterSymref(after_branch, symref) ==
    IF run_git_in_dir(symref) THEN FALSE ELSE TRUE

\* result code and payload of lle_async_get_git_status; timed_out is history:
\* some probe launched for the request hit its timeout
lle_async_get_git_status(outs) ==
    [result |-> LLE_SUCCESS,
     is_git_repo |-> run_git_in_dir(outs[P_GITDIR]),
     is_detached |-> run_git_in_dir(outs[P_GITDIR])
                     /\ DetachedAfterSymref(~run_git_in_dir(outs[P_BRANCH]),
                                            outs[P_SYMREF]),
     timed_out |-> \E p \in ProbesLaunched(outs) : outs[p].timed_out]

GitStatusResults ==
    {lle_async_get_git_status(outs) : outs \in [1..NumProbes -> GitOutcomes]}

NoData(res) ==
    [result |-> res, is_git_repo |-> FALSE, is_detached |-> FALSE,
     timed_out |-> FALSE]

\* the switch on request->type
DispatchResults(type) ==
    IF type = LLE_ASYNC_GIT_STATUS THEN GitStatusResults
    ELSE IF type = LLE_ASYNC_CUSTOM THEN {NoData(LLE_ERROR_FEATURE_NOT_AVAILABLE)}
    ELSE {NoData(LLE_ERROR_INVALID_PARAMETER)}

NoReq == [id |-> 0, type |-> "none"]
NoResp == [id |-> 0, result |-> "none", is_git_repo |-> FALSE,
           is_detached |-> FALSE, timed_out |-> FALSE]

\* no subprocess call in progress
GitIdle ==
    /\ gpc = "idle"
    /\ g_size = 0
    /\ g_pos = 0
    /\ g_errno = "0"
    /\ g_result = [exit_status |-> -1, timed_out |-> FALSE]
    /\ g_path = "none"
    /\ g_calls = <<>>
    /\ pipe_bytes = 0
    /\ child = "none"
    /\ child_out = FALSE
    /\ child_todo = 0
    /\ child_ignores_term = FALSE
    /\ child_status = "none"

\* the rendered prompt: an optional leading newline, then a text
NoPrompt == [nl |-> FALSE, text |-> ""]
NoLife == [op |-> "none", ret |-> "none"]

\* a buffer of the given size: a cell per index 0..size (the last one lies
\* beyond the buffer), -1 where nothing was written; and the write position
NoBuffer == [mem |-> <<-1>>, pos |-> 0, size |-> 0]

NoColor == [done |-> FALSE, bytes |-> <<>>]

NoStrip == [done |-> FALSE, dst |-> <<>>, last |-> 0, fault |-> FALSE]

NoCounts == [staged_count |-> 0, unstaged_count |-> 0, untracked_count |-> 0]
NoStatus == [done |-> FALSE, is_git_repo |-> FALSE, is_detached |-> FALSE,
             branch |-> <<>>, counts |-> NoCounts, launched |-> {}]

\* lle_prompt_expand is not being called
ExpandIdle ==
    /\ ex_format = <<>>
    /\ ex_size = 0
    /\ ex_template = "none"
    /\ ex_rc = "none"
    /\ ex_buf = NoBuffer

\* no colour escape is being expanded
ColorIdle ==
    /\ col_hex = <<0, 0, 0, 0, 0, 0>>
    /\ col_depth = 0
    /\ col_fg = FALSE
    /\ col_out = NoColor

\* lle_powerline_render is not being called
PowerlineIdle ==
    /\ pl_segments = <<>>
    /\ pl_separator = <<>>
    /\ pl_size = 0
    /\ pl_rc = "none"
    /\ pl_visible = <<>>
    /\ pl_out = NoBuffer

\* strip_ansi is not being called
StripIdle ==
    /\ st_src = <<>>
    /\ st_out = NoStrip

\* lle_async_get_git_status is not being called on its own
StatusIdle ==
    /\ gs_outs = <<>>
    /\ gs_branch = <<>>
    /\ gs_porcelain = <<>>
    /\ gs_status = NoStatus

\* no prompt is being expanded or rendered
RenderIdle ==
    /\ ExpandIdle
    /\ ColorIdle
    /\ PowerlineIdle
    /\ StripIdle
    /\ StatusIdle

\* the statics and the symbol table before lle_shell_integration_init was
\* ever called
LifeStaticsIdle ==
    /\ atexit_registered = FALSE
    /\ shutdown_complete = FALSE
    /\ g_registries_initialized = FALSE
    /\ hooks_up = FALSE
    /\ watchdog_up = FALSE
    /\ PS1 = "NULL"
    /\ PROMPT = "NULL"
    /\ newline_before_prompt = FALSE
    /\ s_rendered_ps1 = NoPrompt
    /\ n_instances = 0
    /\ n_created = 0
    /\ n_atexit = 0
    /\ torn = <<>>
    /\ init_trace = <<>>
    /\ lastLife = NoLife
    /\ nlife = 0

\* the process before lle_shell_integration_init was ever called
LifeIdle ==
    /\ global_memory_pool = FALSE
    /\ uid_root = FALSE
    /\ cfg_newline = FALSE
    /\ LifeStaticsIdle

\* g_lle_integration is NULL and there is no structure behind it
NoIntegration ==
    /\ g_lle_integration = FALSE
    /\ session_arena = FALSE
    /\ event_hub = FALSE
    /\ prompt_composer = FALSE
    /\ editor = FALSE
    /\ history_system = FALSE
    /\ editor_initialized = FALSE
    /\ history_initialized = FALSE
    /\ error_count = 0
    /\ ctrl_g_count = 0
    /\ recovery_mode = FALSE
    /\ recovery_count = 0
    /\ hard_reset_count = 0
    /\ nuclear_reset_count = 0
    /\ last_ctrl_g_time_us = 0
    /\ last_reset_time_us = 0
    /\ clock = 0
    /\ clock_ok = TRUE
    /\ home = FALSE
    /\ reset_trace = <<>>
    /\ ilog = <<>>

\* no shell integration: g_lle_integration is NULL
IntegIdle ==
    /\ RenderIdle
    /\ LifeIdle
    /\ NoIntegration

(***************************************************************************)
(* Worker: construction.                                                   *)
(***************************************************************************)
lle_async_worker_init(callback) ==
    /\ running = FALSE
    /\ shutdown_requested = FALSE
    /\ next_request_id = 1
    /\ queue = <<>>
    /\ queue_size = 0
    /\ total_requests = 0
    /\ total_completed = 0
    /\ total_timeouts = 0
    /\ on_complete = callback
    /\ tpc = "none"
    /\ treq = NoReq
    /\ tresp = NoResp
    /\ cpc = "idle"
    /\ lastOp = "init"
    /\ lastRet = LLE_SUCCESS
    /\ ncalls = 0
    /\ destroyed = FALSE
    /\ uaf = FALSE
    /\ accepted = <<>>
    /\ freed = {}
    /\ events = <<>>
    /\ at_shutdown = {}
    /\ nthreads = 0
    /\ unlocked = {}

\* mutation: the signal does not reach a consumer blocked in the wait
pthread_cond_signal_Lost(pc) == pc

\* pthread_cond_signal: wakes the consumer if it is blocked in the wait
pthread_cond_signal(pc) == IF pc = "cv_wait" THEN "check" ELSE pc

\* the caller may enter an API function
CanCall == cpc = "idle" /\ ~destroyed /\ ncalls < MaxCalls

Called(op, ret) ==
    /\ lastOp' = op
    /\ lastRet' = ret
    /\ ncalls' = ncalls + 1

(***************************************************************************)
(* Worker: API functions.  Each runs its critical section atomically.      *)
(***************************************************************************)
thrVars == <<tpc, treq, tresp>>
histVars == <<accepted, freed, events>>
queueVars == <<queue, queue_size, next_request_id, total_requests>>
ghostVars == <<at_shutdown, nthreads, unlocked>>

\* mutation: start does not test the running flag
StartRefused_Never(run) == FALSE

\* if (worker->running) return LLE_ERROR_INVALID_PARAMETER
StartRefused(run) == run

\* lle_async_worker_start; pthread_create may fail
lle_async_worker_start ==
    /\ CanCall
    /\ IF StartRefused(running)
       THEN /\ Called("start", LLE_ERROR_INVALID_PARAMETER)
            /\ UNCHANGED <<running, shutdown_requested, tpc, nthreads>>
       ELSE \E created \in BOOLEAN :
              /\ shutdown_requested' = FALSE
              /\ running' = created
              /\ tpc' = IF created THEN "check" ELSE tpc
              /\ nthreads' = IF created THEN nthreads + 1 ELSE nthreads
              /\ Called("start",
                        IF created THEN LLE_SUCCESS ELSE LLE_ERROR_SYSTEM_CALL)
    /\ UNCHANGED <<gitVars, integVars>>
    /\ UNCHANGED <<at_shutdown, unlocked>>
    /\ UNCHANGED <<queueVars, total_completed, total_timeouts, on_complete,
                   treq, tresp, cpc, destroyed, uaf, histVars>>

\* lle_async_worker_shutdown
lle_async_worker_shutdown ==
    /\ CanCall
    /\ shutdown_requested' = TRUE
    /\ tpc' = pthread_cond_signal(tpc)
    /\ at_shutdown' = at_shutdown \cup {queue[i].id : i \in 1..Len(queue)}
    /\ Called("shutdown", LLE_SUCCESS)
    /\ UNCHANGED <<gitVars, integVars>>
    /\ UNCHANGED <<nthreads, unlocked>>
    /\ UNCHANGED <<running, queueVars, total_completed, total_timeouts,
                   on_complete, treq, tresp, cpc, destroyed, uaf, histVars>>

\* lle_async_worker_wait up to pthread_join
lle_async_worker_wait ==
    /\ CanCall
    /\ IF running
       THEN /\ cpc' = "joining"
            /\ lastOp' = "wait"
            /\ ncalls' = ncalls + 1
            /\ UNCHANGED lastRet
       ELSE /\ Called("wait", LLE_SUCCESS)
            /\ UNCHANGED cpc
    /\ UNCHANGED <<gitVars, integVars>>
    /\ UNCHANGED ghostVars
    /\ UNCHANGED <<running, shutdown_requested, queueVars, total_completed,
                   total_timeouts, on_complete, thrVars, destroyed, uaf,
                   histVars>>

\* pthread_join returns once the thread has left its loop; the tail of
\* lle_async_worker_wait then clears running
lle_async_worker_wait_joined ==
    /\ cpc = "joining"
    /\ tpc = "exited"
    /\ tpc' = "none"
    /\ running' = FALSE
    /\ cpc' = "idle"
    /\ nthreads' = nthreads - 1
    /\ lastRet' = LLE_SUCCESS
    /\ UNCHANGED <<gitVars, integVars>>
    /\ UNCHANGED <<at_shutdown, unlocked>>
    /\ UNCHANGED <<shutdown_requested, queueVars, total_completed,
                   total_timeouts, on_complete, treq, tresp, lastOp, ncalls,
                   destroyed, uaf, histVars>>

\* mutation: the guard forgets the shutdown flag
SubmitAllowed_IgnoresShutdown(run, shut) == run

\* the guard of submit: the worker accepts requests
SubmitAllowed(run, shut) == run /\ ~shut

\* mutation: off-by-one in the depth test
QueueIsFull_OffByOne(n) == n > LLE_ASYNC_MAX_QUEUE_SIZE

\* the queue is at its depth limit
QueueIsFull(n) == n >= LLE_ASYNC_MAX_QUEUE_SIZE

\* mutation: the request is linked in at the head
Enqueue_AtHead(q, req) == <<req>> \o q

\* linking the request behind queue_tail
Enqueue(q, req) == Append(q, req)

\* mutation: the id counter is not advanced
NextRequestId_Stale(n) == n

\* request->id = worker->next_request_id++ : the counter after the assignment
NextRequestId(n) == n + 1

\* lle_async_worker_submit
lle_async_worker_submit ==
    /\ CanCall
    /\ \E type \in RequestTypes :
         IF ~SubmitAllowed(running, shutdown_requested)
         THEN /\ Called("submit", LLE_ERROR_INVALID_STATE)
              /\ UNCHANGED <<queueVars, tpc, accepted>>
         ELSE IF QueueIsFull(queue_size)
         THEN /\ Called("submit", LLE_ERROR_RESOURCE_EXHAUSTED)
              /\ UNCHANGED <<queueVars, tpc, accepted>>
         ELSE /\ queue' = Enqueue(queue, [id |-> next_request_id, type |-> type])
              /\ next_request_id' = NextRequestId(next_request_id)
              /\ queue_size' = queue_size + 1
              /\ total_requests' = total_requests + 1
              /\ tpc' = pthread_cond_signal(tpc)
              /\ accepted' = Append(accepted, next_request_id)
              /\ Called("submit", LLE_SUCCESS)
    /\ UNCHANGED <<gitVars, integVars>>
    /\ UNCHANGED ghostVars
    /\ UNCHANGED <<running, shutdown_requested, total_completed,
                   total_timeouts, on_complete, treq, tresp, cpc, destroyed,
                   uaf, freed, events>>

\* lle_async_worker_destroy: frees what is still queued, then the worker
lle_async_worker_destroy ==
    /\ CanCall
    /\ freed' = {queue[i].id : i \in 1..Len(queue)}
    /\ queue' = <<>>
    /\ queue_size' = 0
    /\ destroyed' = TRUE
    /\ Called("destroy", LLE_SUCCESS)
    /\ UNCHANGED <<gitVars, integVars>>
    /\ UNCHANGED ghostVars
    /\ UNCHANGED <<running, shutdown_requested, next_request_id,
                   total_requests, total_completed, total_timeouts,
                   on_complete, thrVars, cpc, uaf, accepted, events>>

\* lle_async_worker_get_stats
lle_async_worker_get_stats ==
    [total_requests |-> total_requests,
     total_completed |-> total_completed,
     total_timeouts |-> total_timeouts]

\* a query function: it takes no lock, `fields` are the members it reads
QueryUnlocked(fields) ==
    /\ cpc = "idle" /\ ~destroyed
    /\ unlocked' = unlocked \cup fields
    /\ UNCHANGED <<gitVars, integVars>>
    /\ UNCHANGED <<running, shutdown_requested, queueVars, total_completed,
                   total_timeouts, on_complete, thrVars, cpc, lastOp, lastRet,
                   ncalls, destroyed, uaf, histVars, at_shutdown, nthreads>>

\* return worker->running && !worker->shutdown_requested;
lle_async_worker_is_running ==
    QueryUnlocked({"running", "shutdown_requested"})

\* return worker->queue_size;
lle_async_worker_pending_count ==
    QueryUnlocked({"queue_size"})

\* the call of lle_async_worker_get_stats: copies the three counters out
lle_async_worker_get_stats_call ==
    QueryUnlocked({"total_requests", "total_completed", "total_timeouts"})

(***************************************************************************)
(* Worker: the consumer thread, lle_async_worker_thread.                   *)
(*   check     holds the mutex at the head of the wait loop                *)
(*   cv_wait   blocked in pthread_cond_wait                                *)
(*   dispatch  request dequeued, mutex released                            *)
(*   complete  response built, about to count it                           *)
(*   callback  counted, about to notify and free the request               *)
(*   exited    left the loop                                               *)
(***************************************************************************)
Event(kind, resp) ==
    [kind |-> kind, id |-> resp.id, result |-> resp.result,
     timed_out |-> resp.timed_out]

\* while (queue_head == NULL && !shutdown_requested) pthread_cond_wait(...)
ThreadCondWait ==
    /\ tpc = "check" /\ ~destroyed
    /\ queue = <<>> /\ ~shutdown_requested
    /\ tpc' = "cv_wait"
    /\ UNCHANGED <<gitVars, integVars>>
    /\ UNCHANGED ghostVars
    /\ UNCHANGED <<running, shutdown_requested, queueVars, total_completed,
                   total_timeouts, on_complete, treq, tresp, cpc, lastOp,
                   lastRet, ncalls, destroyed, uaf, histVars>>

\* pthread_cond_wait may return without a signal
ThreadSpuriousWake ==
    /\ tpc = "cv_wait" /\ ~destroyed
    /\ tpc' = "check"
    /\ UNCHANGED <<gitVars, integVars>>
    /\ UNCHANGED ghostVars
    /\ UNCHANGED <<running, shutdown_requested, queueVars, total_completed,
                   total_timeouts, on_complete, treq, tresp, cpc, lastOp,
                   lastRet, ncalls, destroyed, uaf, histVars>>

\* mutation: the loop leaves on shutdown without draining the queue
ShouldExit_NoDrain(shut, q) == shut

\* if (shutdown_requested && queue_head == NULL) break
ShouldExit(shut, q) == shut /\ q = <<>>

ThreadExit ==
    /\ tpc = "check" /\ ~destroyed
    /\ ShouldExit(shutdown_requested, queue)
    /\ tpc' = "exited"
    /\ UNCHANGED <<gitVars, integVars>>
    /\ UNCHANGED ghostVars
    /\ UNCHANGED <<running, shutdown_requested, queueVars, total_completed,
                   total_timeouts, on_complete, treq, tresp, cpc, lastOp,
                   lastRet, ncalls, destroyed, uaf, histVars>>

\* mutation: the size counter is not decremented
DequeuedSize_Stale(n) == n

\* queue_size after unlinking the head
DequeuedSize(n) == n - 1

\* dequeue the head request
ThreadDequeue ==
    /\ tpc = "check" /\ ~destroyed
    /\ queue # <<>>
    /\ ~ShouldExit(shutdown_requested, queue)
    /\ treq' = Head(queue)
    /\ queue' = Tail(queue)
    /\ queue_size' = DequeuedSize(queue_size)
    /\ tpc' = "dispatch"
    /\ UNCHANGED <<gitVars, integVars>>
    /\ UNCHANGED ghostVars
    /\ UNCHANGED <<running, shutdown_requested, next_request_id,
                   total_requests, total_completed, total_timeouts,
                   on_complete, tresp, cpc, lastOp, lastRet, ncalls,
                   destroyed, uaf, histVars>>

\* memset the response, copy the id, run the handler of the request's type
ThreadDispatch ==
    /\ tpc = "dispatch"
    /\ \E d \in DispatchResults(treq.type) :
         /\ tresp' = [id |-> treq.id, result |-> d.result,
                      is_git_repo |-> d.is_git_repo,
                      is_detached |-> d.is_detached,
                      timed_out |-> d.timed_out]
         /\ events' = Append(events, Event("dispatch", [tresp' EXCEPT
                                  !.result = "none", !.timed_out = FALSE]))
    /\ tpc' = "complete"
    /\ UNCHANGED <<gitVars, integVars>>
    /\ UNCHANGED ghostVars
    /\ UNCHANGED <<running, shutdown_requested, queueVars, total_completed,
                   total_timeouts, on_complete, treq, cpc, lastOp, lastRet,
                   ncalls, destroyed, uaf, accepted, freed>>

\* mutation: the completion is not counted before the callback
CountCompleted_Skipped(n) == n

\* worker->total_completed++
CountCompleted(n) == n + 1

\* lock, total_completed++, unlock
ThreadComplete ==
    /\ tpc = "complete" /\ ~destroyed
    /\ total_completed' = CountCompleted(total_completed)
    /\ tpc' = "callback"
    /\ UNCHANGED <<gitVars, integVars>>
    /\ UNCHANGED ghostVars
    /\ UNCHANGED <<running, shutdown_requested, queueVars, total_timeouts,
                   on_complete, treq, tresp, cpc, lastOp, lastRet, ncalls,
                   destroyed, uaf, histVars>>

\* if (worker->on_complete) on_complete(&response, ...); free(request)
ThreadCallback ==
    /\ tpc = "callback" /\ ~destroyed
    /\ events' = IF on_complete THEN Append(events, Event("callback", tresp))
                 ELSE events
    /\ treq' = NoReq
    /\ tresp' = NoResp
    /\ tpc' = "check"
    /\ UNCHANGED <<gitVars, integVars>>
    /\ UNCHANGED ghostVars
    /\ UNCHANGED <<running, shutdown_requested, queueVars, total_completed,
                   total_timeouts, on_complete, cpc, lastOp, lastRet, ncalls,
                   destroyed, uaf, accepted, freed>>

\* The thread reaches its next access to the worker after destroy has freed
\* it: undefined behaviour.  The builds' outcomes modelled are a crash and a
\* run on stale memory that still delivers the response in hand.
ThreadUseAfterFree ==
    /\ destroyed
    /\ tpc \in {"check", "cv_wait", "complete", "callback"}
    /\ uaf' = TRUE
    /\ tpc' = "undefined"
    /\ \E delivers \in BOOLEAN :
         events' = IF delivers /\ on_complete /\ tpc \in {"complete", "callback"}
                   THEN Append(events, Event("callback", tresp))
                   ELSE events
    /\ UNCHANGED <<gitVars, integVars>>
    /\ UNCHANGED ghostVars
    /\ UNCHANGED <<running, shutdown_requested, queueVars, total_completed,
                   total_timeouts, on_complete, treq, tresp, cpc, lastOp,
                   lastRet, ncalls, destroyed, accepted, freed>>

Init ==
    /\ \E callback \in BOOLEAN : lle_async_worker_init(callback)
    /\ GitIdle
    /\ IntegIdle

Next ==
    \/ lle_async_worker_start
    \/ lle_async_worker_shutdown
    \/ lle_async_worker_wait
    \/ lle_async_worker_wait_joined
    \/ lle_async_worker_submit
    \/ lle_async_worker_destroy
    \/ ThreadCondWait
    \/ ThreadSpuriousWake
    \/ ThreadExit
    \/ ThreadDequeue
    \/ ThreadDispatch
    \/ ThreadComplete
    \/ ThreadCallback
    \/ ThreadUseAfterFree

Spec == Init /\ [][Next]_vars

\* the worker with its query functions called at any point as well
NextQuery ==
    \/ Next
    \/ lle_async_worker_is_running
    \/ lle_async_worker_pending_count
    \/ lle_async_worker_get_stats_call

SpecQuery == Init /\ [][NextQuery]_vars

\* number of API calls the caller makes where progress is checked
MaxLiveCalls == 5

\* the worker used without lle_async_worker_destroy
NextLive ==
    \/ ncalls < MaxLiveCalls /\ lle_async_worker_start
    \/ ncalls < MaxLiveCalls /\ lle_async_worker_shutdown
    \/ ncalls < MaxLiveCalls /\ lle_async_worker_wait
    \/ lle_async_worker_wait_joined
    \/ ncalls < MaxLiveCalls /\ lle_async_worker_submit
    \/ ThreadCondWait
    \/ ThreadSpuriousWake
    \/ ThreadExit
    \/ ThreadDequeue
    \/ ThreadDispatch
    \/ ThreadComplete
    \/ ThreadCallback

\* The steps the consumer thread takes when it is scheduled: every step of
\* its loop, a dispatch that returns included.  A return from
\* pthread_cond_wait without a signal is not among them: nothing promises
\* one.
ThreadProgress ==
    \/ ThreadCondWait
    \/ ThreadExit
    \/ ThreadDequeue
    \/ ThreadDispatch
    \/ ThreadComplete
    \/ ThreadCallback

SpecLive == Init /\ [][NextLive]_vars /\ WF_vars(ThreadProgress)

TypeOK ==
    /\ running \in BOOLEAN /\ shutdown_requested \in BOOLEAN
    /\ queue_size \in Int /\ total_requests \in Nat
    /\ tpc \in {"none", "check", "cv_wait", "dispatch", "complete",
                "callback", "exited", "undefined"}
    /\ cpc \in {"idle", "joining"}

(***************************************************************************)
(* Timed subprocess runner, git_command_with_timeout.                      *)
(* The parent's positions:                                                 *)
(*   pipe, fork, select        the calls of those names                    *)
(*   kc_term .. kc_reap        kill_child, one position per call           *)
(*   rd_discard                read_all_available without a buffer         *)
(*   rd_buf, rd_drain          read_all_available's outer and drain loops  *)
(*   reap                      the final waitpid loop                      *)
(*   returned                  the call has returned g_result              *)
(* The captured text is modelled by its length.                            *)
(***************************************************************************)
\* largest output_size tried
MaxBuf == 3
\* most bytes the child writes
MaxOut == 3
\* capacity of the pipe
PipeCap == 2

Min(a, b) == IF a < b THEN a ELSE b

\* a read of the pipe would not block: data is there, or every write end is
\* closed (the parent closed its own right after fork)
PipeReadable == pipe_bytes > 0 \/ ~child_out

\* the state a call starts in
GitInit ==
    /\ gpc = "pipe"
    /\ g_size \in 0..MaxBuf
    /\ g_pos = 0
    /\ g_errno \in {"0", "EINTR"}
    /\ g_result = [exit_status |-> -1, timed_out |-> FALSE]
    /\ g_path = "none"
    /\ g_calls = <<>>
    /\ pipe_bytes = 0
    /\ child = "none"
    /\ child_out = FALSE
    /\ child_todo \in 0..MaxOut
    /\ child_ignores_term \in BOOLEAN
    /\ child_status = "none"

parentVars == <<gpc, g_size, g_pos, g_errno, g_result, g_path, g_calls>>
childVars == <<child, child_out, child_todo, child_ignores_term,
               child_status>>

\* pipe(pipefd)
GitPipe ==
    /\ gpc = "pipe"
    /\ \E ok \in BOOLEAN :
         /\ gpc' = IF ok THEN "fork" ELSE "returned"
         /\ g_errno' = IF ok THEN g_errno ELSE "EMFILE"
    /\ UNCHANGED <<g_size, g_pos, g_result, g_path, g_calls, pipe_bytes,
                   childVars, workerVars, integVars>>

\* fork(); the parent closes the write end
GitFork ==
    /\ gpc = "fork"
    /\ \E ok \in BOOLEAN :
         IF ok
         THEN /\ gpc' = "select"
              /\ child' = "alive"
              /\ child_out' = TRUE
              /\ UNCHANGED g_errno
         ELSE /\ gpc' = "returned"
              /\ g_errno' = "EAGAIN"
              /\ UNCHANGED <<child, child_out>>
    /\ UNCHANGED <<g_size, g_pos, g_result, g_path, g_calls, pipe_bytes,
                   child_todo, child_ignores_term, child_status, workerVars, integVars>>

\* where read_all_available starts
ReadEntry(size) == IF size = 0 THEN "rd_discard" ELSE "rd_buf"

\* select() reports the pipe readable
GitSelectReady ==
    /\ gpc = "select"
    /\ PipeReadable
    /\ gpc' = ReadEntry(g_size)
    /\ g_path' = "normal"
    /\ UNCHANGED <<g_size, g_pos, g_errno, g_result, g_calls, pipe_bytes,
                   childVars, workerVars, integVars>>

\* select() returns 0: nothing became readable within timeout_ms
GitSelectTimeout ==
    /\ gpc = "select"
    /\ ~PipeReadable
    /\ gpc' = "kc_term"
    /\ g_path' = "timeout"
    /\ UNCHANGED <<g_size, g_pos, g_errno, g_result, g_calls, pipe_bytes,
                   childVars, workerVars, integVars>>

\* select() is interrupted by a signal: the call proceeds to read
GitSelectEintr ==
    /\ gpc = "select"
    /\ g_errno' = "EINTR"
    /\ gpc' = ReadEntry(g_size)
    /\ g_path' = "normal"
    /\ UNCHANGED <<g_size, g_pos, g_result, g_calls, pipe_bytes, childVars,
                   workerVars, integVars>>

\* select() fails with another error
GitSelectError ==
    /\ gpc = "select"
    /\ g_errno' = "EINVAL"
    /\ gpc' = "kc_term"
    /\ g_path' = "select_error"
    /\ UNCHANGED <<g_size, g_pos, g_result, g_calls, pipe_bytes, childVars,
                   workerVars, integVars>>

\* kill_child: kill(pid, SIGTERM)
KillChildTerm ==
    /\ gpc = "kc_term"
    /\ g_calls' = Append(g_calls, "SIGTERM")
    /\ IF child = "alive" /\ ~child_ignores_term
       THEN /\ child' = "zombie"
            /\ child_out' = FALSE
            /\ child_status' = "signaled"
       ELSE UNCHANGED <<child, child_out, child_status>>
    /\ gpc' = "kc_sleep"
    /\ UNCHANGED <<g_size, g_pos, g_errno, g_result, g_path, pipe_bytes,
                   child_todo, child_ignores_term, workerVars, integVars>>

\* kill_child: the 100 ms select() on no descriptors
KillChildGrace ==
    /\ gpc = "kc_sleep"
    /\ g_calls' = Append(g_calls, "grace")
    /\ gpc' = "kc_reap_nb"
    /\ UNCHANGED <<g_size, g_pos, g_errno, g_result, g_path, pipe_bytes,
                   childVars, workerVars, integVars>>

\* result of waitpid(pid, &status, WNOHANG): 0 while the child runs
WaitpidNohang(c) == IF c = "zombie" THEN 1 ELSE 0

\* the return of kill_child's callers
GitKilledResult(path) ==
    [exit_status |-> -1, timed_out |-> (path = "timeout")]

\* mutation: the escalation does not look at the result of the reap
KillChildEscalates_Always(result) == TRUE

\* if (result == 0): the child is still running, force kill
KillChildEscalates(result) == result = 0

\* kill_child: waitpid(pid, &status, WNOHANG)
KillChildReapNohang ==
    /\ gpc = "kc_reap_nb"
    /\ g_calls' = Append(g_calls,
                         IF child = "zombie" THEN "reap_nohang_reaped"
                         ELSE "reap_nohang_running")
    /\ child' = IF child = "zombie" THEN "reaped" ELSE child
    /\ IF KillChildEscalates(WaitpidNohang(child))
       THEN /\ gpc' = "kc_kill"
            /\ UNCHANGED g_result
       ELSE /\ gpc' = "returned"
            /\ g_result' = GitKilledResult(g_path)
    /\ UNCHANGED <<g_size, g_pos, g_errno, g_path, pipe_bytes, child_out,
                   child_todo, child_ignores_term, child_status, workerVars, integVars>>

\* kill_child: kill(pid, SIGKILL)
KillChildKill ==
    /\ gpc = "kc_kill"
    /\ g_calls' = Append(g_calls, "SIGKILL")
    /\ IF child = "alive"
       THEN /\ child' = "zombie"
            /\ child_out' = FALSE
            /\ child_status' = "signaled"
       ELSE UNCHANGED <<child, child_out, child_status>>
    /\ gpc' = "kc_reap"
    /\ UNCHANGED <<g_size, g_pos, g_errno, g_result, g_path, pipe_bytes,
                   child_todo, child_ignores_term, workerVars, integVars>>

\* kill_child: waitpid(pid, &status, 0), called once; a signal handler
\* running in the caller makes it fail with EINTR
KillChildReap ==
    /\ gpc = "kc_reap"
    /\ g_calls' = Append(g_calls, "reap_blocking")
    /\ \E interrupted \in BOOLEAN :
         IF interrupted
         THEN /\ g_errno' = "EINTR"
              /\ UNCHANGED child
         ELSE /\ child = "zombie"
              /\ child' = "reaped"
              /\ UNCHANGED g_errno
    /\ gpc' = "returned"
    /\ g_result' = GitKilledResult(g_path)
    /\ UNCHANGED <<g_size, g_pos, g_path, pipe_bytes, child_out, child_todo,
                   child_ignores_term, child_status, workerVars, integVars>>

\* what one read() of the pipe can do: transfer data, report end of file,
\* fail with EINTR, fail with another error; with the pipe empty and a write
\* end still open it blocks, and none of the first two is possible
ReadOutcomes == {"data", "eof", "eintr", "error"}

ReadPossible(o) ==
    CASE o = "data" -> pipe_bytes > 0
      [] o = "eof" -> pipe_bytes = 0 /\ ~child_out
      [] OTHER -> TRUE

ReadErrno(o) ==
    CASE o = "eintr" -> "EINTR"
      [] o = "error" -> "EIO"
      [] OTHER -> g_errno

\* read_all_available without a buffer: for (;;) read into drain[]
\*   n > 0 continue; n == 0 break; EINTR continue; else break
ReadDiscard(o) ==
    /\ gpc = "rd_discard"
    /\ ReadPossible(o)
    /\ g_errno' = ReadErrno(o)
    /\ IF o = "data"
       THEN \E n \in 1..pipe_bytes : pipe_bytes' = pipe_bytes - n
       ELSE UNCHANGED pipe_bytes
    /\ gpc' = IF o \in {"eof", "error"} THEN "reap" ELSE gpc
    /\ UNCHANGED <<g_size, g_pos, g_result, g_path, g_calls, childVars,
                   workerVars, integVars>>

GitReadDiscard == \E o \in ReadOutcomes : ReadDiscard(o)

\* read_all_available, outer loop: remaining == 0 enters the drain loop
GitReadBufferFull ==
    /\ gpc = "rd_buf"
    /\ g_size - 1 - g_pos = 0
    /\ gpc' = "rd_drain"
    /\ UNCHANGED <<g_size, g_pos, g_errno, g_result, g_path, g_calls,
                   pipe_bytes, childVars, workerVars, integVars>>

\* read_all_available, outer loop: read(fd, buf + pos, remaining)
ReadBuffer(o) ==
    /\ gpc = "rd_buf"
    /\ g_size - 1 - g_pos > 0
    /\ ReadPossible(o)
    /\ g_errno' = ReadErrno(o)
    /\ IF o = "data"
       THEN \E n \in 1..Min(pipe_bytes, g_size - 1 - g_pos) :
              /\ pipe_bytes' = pipe_bytes - n
              /\ g_pos' = g_pos + n
       ELSE UNCHANGED <<pipe_bytes, g_pos>>
    /\ gpc' = IF o \in {"eof", "error"} THEN "reap" ELSE gpc
    /\ UNCHANGED <<g_size, g_result, g_path, g_calls, childVars, workerVars, integVars>>

GitReadBuffer == \E o \in ReadOutcomes : ReadBuffer(o)

\* the drain loop's exit test: if (n <= 0 && errno != EINTR) break
DrainLoopBreaks(n, err) == n <= 0 /\ err # "EINTR"

\* read_all_available, drain loop: read(fd, drain, sizeof(drain))
ReadDrain(o) ==
    /\ gpc = "rd_drain"
    /\ ReadPossible(o)
    /\ g_errno' = ReadErrno(o)
    /\ IF o = "data"
       THEN \E n \in 1..pipe_bytes :
              /\ pipe_bytes' = pipe_bytes - n
              /\ gpc' = IF DrainLoopBreaks(n, g_errno') THEN "reap" ELSE gpc
       ELSE /\ UNCHANGED pipe_bytes
            /\ gpc' = IF DrainLoopBreaks(IF o = "eof" THEN 0 ELSE -1, g_errno')
                      THEN "reap" ELSE gpc
    /\ UNCHANGED <<g_size, g_pos, g_result, g_path, g_calls, childVars,
                   workerVars, integVars>>

GitReadDrain == \E o \in ReadOutcomes : ReadDrain(o)

\* exit_status from the wait status: WIFEXITED ? WEXITSTATUS : -1
ExitStatusOf(st) ==
    IF st = "exit0" THEN 0 ELSE IF st = "exit1" THEN 1 ELSE -1

\* do waited = waitpid(pid, &status, 0); while (waited < 0 && errno == EINTR)
\* the call blocks while the child runs
Reap(interrupted) ==
    /\ gpc = "reap"
    /\ IF interrupted
       THEN /\ g_errno' = "EINTR"
            /\ UNCHANGED <<child, g_result, gpc>>
       ELSE /\ child = "zombie"
            /\ child' = "reaped"
            /\ g_result' = [exit_status |-> ExitStatusOf(child_status),
                            timed_out |-> FALSE]
            /\ gpc' = "returned"
            /\ UNCHANGED g_errno
    /\ UNCHANGED <<g_size, g_pos, g_path, g_calls, pipe_bytes, child_out,
                   child_todo, child_ignores_term, child_status, workerVars, integVars>>

GitReap == \E interrupted \in BOOLEAN : Reap(interrupted)

(***************************************************************************)
(* The child: /bin/sh -c cmd with stdout on the pipe.  It may write, close *)
(* its stdout and exit in any order and at any time, or do none of these.  *)
(***************************************************************************)
ChildWrite ==
    /\ child = "alive" /\ child_out
    /\ child_todo > 0
    /\ pipe_bytes < PipeCap
    /\ gpc \notin {"kc_term", "kc_sleep", "kc_reap_nb", "kc_kill", "kc_reap",
                   "reap", "returned"}
    /\ pipe_bytes' = pipe_bytes + 1
    /\ child_todo' = child_todo - 1
    /\ UNCHANGED <<parentVars, child, child_out, child_ignores_term,
                   child_status, workerVars, integVars>>

ChildCloseStdout ==
    /\ child = "alive" /\ child_out
    /\ child_out' = FALSE
    /\ UNCHANGED <<parentVars, pipe_bytes, child, child_todo,
                   child_ignores_term, child_status, workerVars, integVars>>

ChildExit ==
    /\ child = "alive"
    /\ \E st \in {"exit0", "exit1", "signaled"} : child_status' = st
    /\ child' = "zombie"
    /\ child_out' = FALSE
    /\ UNCHANGED <<parentVars, pipe_bytes, child_todo, child_ignores_term,
                   workerVars, integVars>>

GitParentStep ==
    \/ GitPipe
    \/ GitFork
    \/ GitSelectReady
    \/ GitSelectTimeout
    \/ GitSelectEintr
    \/ GitSelectError
    \/ KillChildTerm
    \/ KillChildGrace
    \/ KillChildReapNohang
    \/ KillChildKill
    \/ KillChildReap
    \/ GitReadDiscard
    \/ GitReadBufferFull
    \/ GitReadBuffer
    \/ GitReadDrain
    \/ GitReap

GitChildStep ==
    \/ ChildWrite
    \/ ChildCloseStdout
    \/ ChildExit

InitGit ==
    /\ lle_async_worker_init(FALSE)
    /\ GitInit
    /\ IntegIdle

NextGit == GitParentStep \/ GitChildStep

SpecGit == InitGit /\ [][NextGit]_vars

\* The steps the parent takes whenever it is not blocked: every call that can
\* complete does.  Failures of read and waitpid (EINTR, EIO) are chosen by the
\* environment and the child's steps by the child: neither is guaranteed.
GitParentProgress ==
    \/ GitPipe
    \/ GitFork
    \/ GitSelectReady
    \/ GitSelectTimeout
    \/ KillChildTerm
    \/ KillChildGrace
    \/ KillChildReapNohang
    \/ KillChildKill
    \/ KillChildReap
    \/ GitReadBufferFull
    \/ \E o \in {"data", "eof"} : ReadDiscard(o) \/ ReadBuffer(o) \/ ReadDrain(o)
    \/ Reap(FALSE)

SpecGitFair == SpecGit /\ WF_vars(GitParentProgress)

(***************************************************************************)
(* Shell integration: reset tiers and error / panic tracking               *)
(* (src/src/lle/lle_shell_integration.c).  One caller, the shell's main    *)
(* thread; each operation runs to completion.  Time is in scaled units.    *)
(***************************************************************************)
\* calls of the integration's operations in one run
MaxIntegCalls == 4
\* latest reading of the monotonic clock
MaxClock == 4
\* the panic window and the error threshold; the header that sets the real
\* values is not among the sources, the model runs with scaled-down values
LLE_CTRL_G_PANIC_WINDOW_US == 2
LLE_ERROR_THRESHOLD == 3
\* "Triple Ctrl+G detected"
LLE_CTRL_G_PANIC_COUNT == 3

\* clock_gettime(CLOCK_MONOTONIC) scaled; 0 when the call fails
get_timestamp_us == IF clock_ok THEN clock ELSE 0

\* what create_and_configure_editor can leave behind: no editor (creation
\* failed), an editor without history (history creation failed, still
\* LLE_SUCCESS), an editor with its history system
EditorOutcomes ==
    {[editor |-> FALSE, history_system |-> FALSE],
     [editor |-> TRUE, history_system |-> FALSE],
     [editor |-> TRUE, history_system |-> TRUE]}

\* the state lle_shell_integration_init leaves: the pointer set with the
\* arena, the event hub and the editor up (the composer is optional), or
\* NULL after a failure; the structure is zero-filled by the arena's calloc
IntegInit ==
    /\ g_lle_integration \in BOOLEAN
    /\ session_arena = g_lle_integration
    /\ event_hub = g_lle_integration
    /\ prompt_composer \in {FALSE, g_lle_integration}
    /\ editor = g_lle_integration
    /\ history_system \in {FALSE, g_lle_integration}
    /\ editor_initialized = g_lle_integration
    /\ history_initialized = g_lle_integration
    /\ error_count = 0
    /\ ctrl_g_count = 0
    /\ recovery_mode = FALSE
    /\ recovery_count = 0
    /\ hard_reset_count = 0
    /\ nuclear_reset_count = 0
    /\ last_ctrl_g_time_us = 0
    /\ last_reset_time_us = 0
    /\ clock \in {0, LLE_CTRL_G_PANIC_WINDOW_US}
    /\ clock_ok \in BOOLEAN
    /\ home \in BOOLEAN
    /\ reset_trace = <<>>
    /\ ilog = <<>>
    /\ global_memory_pool = g_lle_integration
    /\ atexit_registered = g_lle_integration
    /\ shutdown_complete = FALSE
    /\ g_registries_initialized = prompt_composer
    /\ hooks_up = g_lle_integration
    /\ watchdog_up = g_lle_integration
    /\ PS1 = (IF prompt_composer THEN "fmt_theme" ELSE "NULL")
    /\ PROMPT = PS1
    /\ uid_root = FALSE
    /\ cfg_newline = FALSE
    /\ newline_before_prompt = FALSE
    /\ s_rendered_ps1 = NoPrompt
    /\ n_instances = (IF g_lle_integration THEN 1 ELSE 0)
    /\ n_created = n_instances
    /\ n_atexit = n_instances
    /\ torn = <<>>
    /\ init_trace = <<>>
    /\ lastLife = NoLife
    /\ nlife = 0
    /\ RenderIdle

\* what no reset tier and no tracking function assigns
frameVars == <<lifeVars, g_lle_integration, session_arena, event_hub,
               prompt_composer, clock, clock_ok, home>>
\* what lle_hard_reset assigns besides the three counters' fields
resetVars == <<reset_trace, editor, history_system, editor_initialized,
               history_initialized, hard_reset_count, last_reset_time_us>>

CanCallInteg == Len(ilog) < MaxIntegCalls

\* the record of one call: the fields before and after it
Logged(op, now, resets) ==
    ilog' = Append(ilog,
                   [op |-> op, integ |-> g_lle_integration, now |-> now,
                    last0 |-> last_ctrl_g_time_us,
                    c0 |-> ctrl_g_count, c1 |-> ctrl_g_count',
                    e0 |-> error_count, e1 |-> error_count',
                    h0 |-> hard_reset_count, h1 |-> hard_reset_count',
                    rm |-> recovery_mode', resets |-> resets])

\* time passes between calls
Tick ==
    /\ clock < MaxClock
    /\ clock' = clock + 1
    /\ UNCHANGED <<lifeVars, g_lle_integration, session_arena, event_hub,
                   prompt_composer, clock_ok, home, resetVars, error_count,
                   ctrl_g_count, recovery_mode, recovery_count,
                   nuclear_reset_count, last_ctrl_g_time_us, ilog>>
    /\ UNCHANGED <<workerVars, gitVars>>

\* mutation: the editor is destroyed before the history is saved
ResetTrace_DestroyFirst(saved, had_editor) ==
    (IF had_editor THEN <<"destroy">> ELSE <<>>)
        \o (IF saved THEN <<"save">> ELSE <<>>) \o <<"create">>

\* the calls of lle_hard_reset in program order: lle_history_save_to_file (with
\* an editor, a history system and HOME), destroy_editor's lle_editor_destroy
\* (with an editor), create_and_configure_editor
ResetTrace(saved, had_editor) ==
    (IF saved THEN <<"save">> ELSE <<>>)
        \o (IF had_editor THEN <<"destroy">> ELSE <<>>) \o <<"create">>

\* the body of lle_hard_reset once g_lle_integration is known to be set;
\* `made` is what create_and_configure_editor produced
HardResetBody(made) ==
    /\ reset_trace' = ResetTrace(editor /\ history_system /\ home, editor)
    /\ editor' = made.editor
    /\ history_system' = made.history_system
    /\ editor_initialized' = IF made.editor THEN TRUE
                             ELSE IF editor THEN FALSE ELSE editor_initialized
    /\ history_initialized' = IF made.editor THEN TRUE
                              ELSE IF editor THEN FALSE ELSE history_initialized
    /\ error_count' = 0
    /\ ctrl_g_count' = 0
    /\ recovery_mode' = FALSE
    /\ hard_reset_count' = hard_reset_count + 1
    /\ last_reset_time_us' = get_timestamp_us

\* lle_hard_reset
lle_hard_reset ==
    /\ CanCallInteg
    /\ IF ~g_lle_integration
       THEN /\ UNCHANGED <<resetVars, error_count, ctrl_g_count, recovery_mode>>
            /\ Logged("hard_reset", 0, 0)
       ELSE \E made \in EditorOutcomes :
              /\ HardResetBody(made)
              /\ Logged("hard_reset", get_timestamp_us, 1)
    /\ UNCHANGED <<frameVars, recovery_count, nuclear_reset_count,
                   last_ctrl_g_time_us>>
    /\ UNCHANGED <<workerVars, gitVars>>

\* lle_nuclear_reset: a hard reset, the terminal reset sequence, the count
lle_nuclear_reset ==
    /\ CanCallInteg
    /\ IF ~g_lle_integration
       THEN /\ UNCHANGED <<resetVars, error_count, ctrl_g_count, recovery_mode,
                           nuclear_reset_count>>
            /\ Logged("nuclear_reset", 0, 0)
       ELSE \E made \in EditorOutcomes :
              /\ HardResetBody(made)
              /\ nuclear_reset_count' = nuclear_reset_count + 1
              /\ Logged("nuclear_reset", get_timestamp_us, 1)
    /\ UNCHANGED <<frameVars, recovery_count, last_ctrl_g_time_us>>
    /\ UNCHANGED <<workerVars, gitVars>>

\* lle_record_error; at the threshold recovery_mode is set and
\* lle_hard_reset runs, which clears it again
lle_record_error ==
    /\ CanCallInteg
    /\ IF ~g_lle_integration
       THEN /\ UNCHANGED <<resetVars, error_count, ctrl_g_count, recovery_mode,
                           recovery_count>>
            /\ Logged("error", 0, 0)
       ELSE IF error_count + 1 >= LLE_ERROR_THRESHOLD
       THEN \E made \in EditorOutcomes :
              /\ recovery_count' = recovery_count + 1
              /\ HardResetBody(made)
              /\ Logged("error", get_timestamp_us, 1)
       ELSE /\ error_count' = error_count + 1
            /\ UNCHANGED <<resetVars, ctrl_g_count, recovery_mode,
                           recovery_count>>
            /\ Logged("error", 0, 0)
    /\ UNCHANGED <<frameVars, nuclear_reset_count, last_ctrl_g_time_us>>
    /\ UNCHANGED <<workerVars, gitVars>>

\* lle_reset_error_counter
lle_reset_error_counter ==
    /\ CanCallInteg
    /\ IF ~g_lle_integration
       THEN UNCHANGED <<error_count, recovery_mode>>
       ELSE /\ error_count' = 0
            /\ recovery_mode' = FALSE
    /\ UNCHANGED <<frameVars, resetVars, ctrl_g_count, recovery_count,
                   nuclear_reset_count, last_ctrl_g_time_us>>
    /\ Logged("reset_error_counter", 0, 0)
    /\ UNCHANGED <<workerVars, gitVars>>

\* mutation: every press counts as inside the window
WithinPanicWindow_Always(now, last) == TRUE

\* now - last_ctrl_g_time_us < LLE_CTRL_G_PANIC_WINDOW_US; the timestamps
\* never decrease, so the unsigned difference does not wrap
WithinPanicWindow(now, last) == now - last < LLE_CTRL_G_PANIC_WINDOW_US

\* mutation: the panic fires one press late
PanicReached_Late(n) == n > LLE_CTRL_G_PANIC_COUNT

\* ctrl_g_count >= LLE_CTRL_G_PANIC_COUNT
PanicReached(n) == n >= LLE_CTRL_G_PANIC_COUNT

\* ctrl_g_count after the window test of lle_record_ctrl_g
CountedPresses(now) ==
    IF WithinPanicWindow(now, last_ctrl_g_time_us) THEN ctrl_g_count + 1 ELSE 1

\* lle_record_ctrl_g
lle_record_ctrl_g ==
    /\ CanCallInteg
    /\ IF ~g_lle_integration
       THEN /\ UNCHANGED <<resetVars, error_count, ctrl_g_count, recovery_mode,
                           last_ctrl_g_time_us>>
            /\ Logged("ctrl_g", 0, 0)
       ELSE /\ last_ctrl_g_time_us' = get_timestamp_us
            /\ IF PanicReached(CountedPresses(get_timestamp_us))
               THEN \E made \in EditorOutcomes :
                      /\ HardResetBody(made)
                      /\ Logged("ctrl_g", get_timestamp_us, 1)
               ELSE /\ ctrl_g_count' = CountedPresses(get_timestamp_us)
                    /\ UNCHANGED <<resetVars, error_count, recovery_mode>>
                    /\ Logged("ctrl_g", get_timestamp_us, 0)
    /\ UNCHANGED <<frameVars, recovery_count, nuclear_reset_count>>
    /\ UNCHANGED <<workerVars, gitVars>>

InitInteg ==
    /\ lle_async_worker_init(FALSE)
    /\ GitIdle
    /\ IntegInit

NextInteg ==
    \/ Tick
    \/ lle_hard_reset
    \/ lle_nuclear_reset
    \/ lle_record_error
    \/ lle_reset_error_counter
    \/ lle_record_ctrl_g

SpecInteg == InitInteg /\ [][NextInteg]_vars

(***************************************************************************)
(* Shell integration: lifecycle and prompt variables                       *)
(* (src/src/lle/lle_shell_integration.c).  A failing or succeeding step of *)
(* a subsystem outside this file is an outcome chosen per call.            *)
(***************************************************************************)
\* lifecycle and prompt calls in one run
MaxLifeCalls == 4

LLE_ERROR_NOT_INITIALIZED == "LLE_ERROR_NOT_INITIALIZED"
LLE_ERROR_OUT_OF_MEMORY == "LLE_ERROR_OUT_OF_MEMORY"

CanCallLife == nlife < MaxLifeCalls

LifeCalled(op, ret) ==
    /\ lastLife' = [op |-> op, ret |-> ret]
    /\ nlife' = nlife + 1

\* the integration structure's members
integFields == <<session_arena, event_hub, prompt_composer, editor,
                 history_system, editor_initialized, history_initialized,
                 error_count, ctrl_g_count, recovery_mode, recovery_count,
                 hard_reset_count, nuclear_reset_count, last_ctrl_g_time_us,
                 last_reset_time_us>>
\* what the lifecycle and prompt functions never assign
envVars == <<renderVars, global_memory_pool, uid_root, cfg_newline, clock, clock_ok, home,
             reset_trace, ilog>>
\* the statics and the bookkeeping of init and shutdown
lifecycleVars == <<atexit_registered, shutdown_complete,
                   g_registries_initialized, hooks_up, watchdog_up,
                   newline_before_prompt, n_instances, n_created, n_atexit,
                   torn, init_trace>>

\* the shell integration's state and its bookkeeping: what no prompt
\* expansion or rendering function touches
shellVars == <<g_lle_integration, integFields, lifecycleVars, PS1, PROMPT,
               s_rendered_ps1, lastLife, nlife, global_memory_pool, uid_root,
               cfg_newline, clock, clock_ok, home, reset_trace, ilog>>

\* the members of a structure that is not there (freed, or never made)
NoIntegFields ==
    /\ session_arena' = FALSE
    /\ event_hub' = FALSE
    /\ prompt_composer' = FALSE
    /\ editor' = FALSE
    /\ history_system' = FALSE
    /\ editor_initialized' = FALSE
    /\ history_initialized' = FALSE
    /\ error_count' = 0
    /\ ctrl_g_count' = 0
    /\ recovery_mode' = FALSE
    /\ recovery_count' = 0
    /\ hard_reset_count' = 0
    /\ nuclear_reset_count' = 0
    /\ last_ctrl_g_time_us' = 0
    /\ last_reset_time_us' = 0

\* create_and_configure_prompt_composer, given whether the registries are up:
\* the registries fail to come up; they are up and the composer fails
\* (calloc, lle_composer_init, event registration); or the composer is made
\* and PS1 is written from the theme, PROMPT copied from it when the read-back
\* succeeds
ComposerOutcomes(registries) ==
    (IF registries THEN {}
     ELSE {[composer |-> FALSE, registries |-> FALSE, ps1 |-> "NULL",
            sync |-> FALSE]})
    \cup {[composer |-> FALSE, registries |-> TRUE, ps1 |-> "NULL",
           sync |-> FALSE]}
    \cup {[composer |-> TRUE, registries |-> TRUE, ps1 |-> f, sync |-> y] :
            f \in {"fmt_theme", "$ "}, y \in BOOLEAN}

\* the steps at which lle_shell_integration_init can fail, in program order
InitFailures == {"arena", "integ", "event_hub", "editor"}

\* what the failing init brought up and took down again, in order
InitFailureTrace(step) ==
    CASE step = "arena" -> <<>>
      [] step = "integ" -> <<"+arena", "-arena">>
      [] step = "event_hub" -> <<"+arena", "-arena">>
      [] step = "editor" ->
           <<"+arena", "+event_hub", "+hooks", "-event_hub", "-arena">>

InitFailureCode(step) ==
    IF step \in {"arena", "integ"} THEN LLE_ERROR_OUT_OF_MEMORY
    ELSE LLE_ERROR_SYSTEM_CALL

\* mutation: init does not test the global pointer
AlreadyInitialized_Never(g) == FALSE

\* if (g_lle_integration) return LLE_SUCCESS
AlreadyInitialized(g) == g

\* lle_shell_integration_init
lle_shell_integration_init ==
    /\ CanCallLife
    /\ IF AlreadyInitialized(g_lle_integration)
       THEN /\ LifeCalled("init", LLE_SUCCESS)
            /\ UNCHANGED <<g_lle_integration, integFields, lifecycleVars, PS1,
                           PROMPT>>
       ELSE IF ~global_memory_pool
       THEN /\ LifeCalled("init", LLE_ERROR_NOT_INITIALIZED)
            /\ UNCHANGED <<g_lle_integration, integFields, lifecycleVars, PS1,
                           PROMPT>>
       ELSE
         \/ \E step \in InitFailures :
              /\ init_trace' = InitFailureTrace(step)
              /\ hooks_up' = (hooks_up \/ step = "editor")
              /\ LifeCalled("init", InitFailureCode(step))
              /\ UNCHANGED <<g_lle_integration, integFields, atexit_registered,
                             shutdown_complete, g_registries_initialized,
                             watchdog_up, newline_before_prompt, n_instances,
                             n_created, n_atexit, torn, PS1, PROMPT>>
         \/ \E hist \in BOOLEAN, c \in ComposerOutcomes(g_registries_initialized),
               reg \in BOOLEAN, dog \in BOOLEAN :
              /\ g_lle_integration' = TRUE
              /\ session_arena' = TRUE
              /\ event_hub' = TRUE
              /\ hooks_up' = TRUE
              /\ editor' = TRUE
              /\ history_system' = hist
              /\ editor_initialized' = TRUE
              /\ history_initialized' = TRUE
              /\ prompt_composer' = c.composer
              /\ g_registries_initialized' = c.registries
              /\ newline_before_prompt' =
                   (IF c.composer THEN cfg_newline ELSE newline_before_prompt)
              /\ PS1' = (IF c.composer THEN c.ps1 ELSE PS1)
              /\ PROMPT' = (IF c.composer /\ c.sync THEN c.ps1 ELSE PROMPT)
              /\ atexit_registered' = (atexit_registered \/ reg)
              /\ n_atexit' = (IF ~atexit_registered /\ reg
                              THEN n_atexit + 1 ELSE n_atexit)
              /\ watchdog_up' = (watchdog_up \/ dog)
              /\ error_count' = 0
              /\ ctrl_g_count' = 0
              /\ recovery_mode' = FALSE
              /\ recovery_count' = 0
              /\ hard_reset_count' = 0
              /\ nuclear_reset_count' = 0
              /\ last_ctrl_g_time_us' = 0
              /\ last_reset_time_us' = 0
              /\ n_instances' = n_instances + 1
              /\ n_created' = n_created + 1
              /\ init_trace' =
                   <<"+arena", "+event_hub", "+hooks", "+editor">>
                     \o (IF c.composer THEN <<"+composer">> ELSE <<>>)
              /\ LifeCalled("init", LLE_SUCCESS)
              /\ UNCHANGED <<shutdown_complete, torn>>
    /\ UNCHANGED <<envVars, s_rendered_ps1>>
    /\ UNCHANGED <<workerVars, gitVars>>

\* the body of lle_shell_integration_shutdown
ShutdownBody ==
    IF ~g_lle_integration
    THEN UNCHANGED <<g_lle_integration, integFields, g_registries_initialized,
                     hooks_up, watchdog_up, n_instances, torn>>
    ELSE /\ NoIntegFields
         /\ g_registries_initialized' =
              (IF prompt_composer THEN FALSE ELSE g_registries_initialized)
         /\ hooks_up' = FALSE
         /\ watchdog_up' = FALSE
         /\ g_lle_integration' = FALSE
         /\ n_instances' = n_instances - 1
         /\ torn' = Append(torn, n_created)

\* lle_shell_integration_shutdown
lle_shell_integration_shutdown ==
    /\ CanCallLife
    /\ ShutdownBody
    /\ LifeCalled("shutdown", IF g_lle_integration THEN "torn_down" ELSE "noop")
    /\ UNCHANGED <<envVars, s_rendered_ps1, PS1, PROMPT, atexit_registered,
                   shutdown_complete, newline_before_prompt, n_created,
                   n_atexit, init_trace>>
    /\ UNCHANGED <<workerVars, gitVars>>

\* lle_shell_integration_atexit_handler; it can only run once registered
lle_shell_integration_atexit_handler ==
    /\ CanCallLife
    /\ n_atexit > 0
    /\ IF shutdown_complete
       THEN /\ UNCHANGED <<g_lle_integration, integFields,
                           g_registries_initialized, hooks_up, watchdog_up,
                           n_instances, torn, shutdown_complete>>
            /\ LifeCalled("atexit", "noop")
       ELSE /\ shutdown_complete' = TRUE
            /\ ShutdownBody
            /\ LifeCalled("atexit",
                          IF g_lle_integration THEN "torn_down" ELSE "noop")
    /\ UNCHANGED <<envVars, s_rendered_ps1, PS1, PROMPT, atexit_registered,
                   newline_before_prompt, n_created, n_atexit, init_trace>>
    /\ UNCHANGED <<workerVars, gitVars>>

\* the values a script gives PS1 or PROMPT: a format, or bytes that are not
\* UTF-8
PromptValues == {"fmt_a", "fmt_bad"}

\* lle_utf8_is_valid
lle_utf8_is_valid(v) == v # "fmt_bad"

\* mutation: the notification leaves the other variable alone
SyncedValue_Stale(value, old) == old

\* if (value) symtable_set_global(<the other variable>, value)
SyncedValue(value, old) == IF value # "NULL" THEN value ELSE old

\* a variable assignment by the shell (NULL: unset), then
\* lle_shell_notify_prompt_var_set(var_name, value)
lle_shell_notify_prompt_var_set ==
    /\ CanCallLife
    /\ \E var_name \in {"PS1", "PROMPT", "PS2"},
          value \in PromptValues \cup {"NULL"} :
         /\ PS1' = (CASE var_name = "PS1" -> value
                      [] var_name = "PROMPT" -> SyncedValue(value, PS1)
                      [] OTHER -> PS1)
         /\ PROMPT' = (CASE var_name = "PROMPT" -> value
                         [] var_name = "PS1" -> SyncedValue(value, PROMPT)
                         [] OTHER -> PROMPT)
         /\ LifeCalled("set_" \o var_name, value)
    /\ UNCHANGED <<g_lle_integration, integFields, lifecycleVars, envVars,
                   s_rendered_ps1>>
    /\ UNCHANGED <<workerVars, gitVars>>

\* (getuid() > 0) ? "$ " : "# "
MinimalFallback(root) == IF root THEN "# " ELSE "$ "

\* the text lle_prompt_expand makes of a format that it accepts
Expanded(fmt) ==
    CASE fmt = "fmt_a" -> "text_a"
      [] fmt = "fmt_theme" -> "text_theme"
      [] OTHER -> fmt

\* the condition under which lle_shell_update_prompt does not expand PS1
\* (first that applies, in program order)
UpdateCase(expand_ok) ==
    IF ~g_lle_integration \/ ~prompt_composer THEN "no_composer"
    ELSE IF PS1 = "NULL" THEN "ps1_unset"
    ELSE IF ~lle_utf8_is_valid(PS1) THEN "ps1_invalid"
    ELSE IF ~expand_ok THEN "expand_failed"
    ELSE "expanded"

\* lle_shell_update_prompt: strdup_ok is the outcome of the strdup of the
\* fallback format, expand_ok that of lle_prompt_expand
lle_shell_update_prompt ==
    /\ CanCallLife
    /\ \E strdup_ok \in BOOLEAN, expand_ok \in BOOLEAN :
         LET case == UpdateCase(expand_ok)
             fallback == MinimalFallback(uid_root)
         IN  /\ s_rendered_ps1' =
                  CASE case = "no_composer" ->
                         [nl |-> FALSE, text |-> fallback]
                    [] case \in {"ps1_unset", "ps1_invalid"} /\ ~strdup_ok ->
                         [nl |-> FALSE, text |-> "$ "]
                    [] case = "expanded" ->
                         [nl |-> newline_before_prompt, text |-> Expanded(PS1)]
                    [] OTHER ->
                         [nl |-> newline_before_prompt,
                          text |-> IF expand_ok THEN Expanded(fallback)
                                   ELSE fallback]
             /\ LifeCalled("update_prompt", case)
    /\ UNCHANGED <<g_lle_integration, integFields, lifecycleVars, envVars,
                   PS1, PROMPT>>
    /\ UNCHANGED <<workerVars, gitVars>>

InitLife ==
    /\ lle_async_worker_init(FALSE)
    /\ GitIdle
    /\ RenderIdle
    /\ NoIntegration
    /\ LifeStaticsIdle
    /\ global_memory_pool \in BOOLEAN
    /\ uid_root \in BOOLEAN
    /\ cfg_newline \in BOOLEAN

NextLife ==
    \/ lle_shell_integration_init
    \/ lle_shell_integration_shutdown
    \/ lle_shell_integration_atexit_handler
    \/ lle_shell_notify_prompt_var_set
    \/ lle_shell_update_prompt

SpecLife == InitLife /\ [][NextLife]_vars

(***************************************************************************)
(* Prompt expansion (src/src/lle/prompt/prompt_expansion.c).  Strings are  *)
(* sequences of byte values; a format is expanded by the code's own scan,  *)
(* into a buffer that records every cell written.                          *)
(***************************************************************************)
\* longest format
MaxFmt == 5
\* the small output sizes tried, 0..MaxSmallOut, besides one that fits all
MaxSmallOut == 3

colorVars == <<col_hex, col_depth, col_fg, col_out>>
powerlineVars == <<pl_segments, pl_separator, pl_size, pl_rc, pl_visible,
                   pl_out>>
expandVars == <<ex_format, ex_size, ex_template, ex_rc, ex_buf>>

ESC == 27
LLE_ERROR_NULL_POINTER == "LLE_ERROR_NULL_POINTER"

\* the bytes formats are made of: ESC, '%', '0', '[', '\', 'n'
FmtBytes == {27, 37, 48, 91, 92, 110}

\* the strings over a set of bytes, up to a length
RECURSIVE StringsUpTo(_, _)
StringsUpTo(bytes, n) ==
    IF n = 0 THEN {<<>>}
    ELSE LET shorter == StringsUpTo(bytes, n - 1)
         IN  shorter \cup {Append(s, c) : s \in {t \in shorter : Len(t) = n - 1},
                                          c \in bytes}

Formats == StringsUpTo(FmtBytes, MaxFmt)

OutputSizes == (0..MaxSmallOut) \cup {MaxFmt + 1}

\* *p for a C string: the terminator at and after its end
At(str, p) == IF p <= Len(str) THEN str[p] ELSE 0

\* a plain char holding a byte value, as the comparison *p < 0x40 sees it
SignedChar(c) == IF c >= 128 THEN c - 256 ELSE c

\* the C string in a buffer of the given size: the cells before the first NUL
CString(mem, size) ==
    LET nul == {i \in 1..size : mem[i] = 0}
        end == IF nul = {} THEN size + 1
               ELSE CHOOSE i \in nul : \A j \in nul : i <= j
    IN  SubSeq(mem, 1, end - 1)

\* buf[idx] = c
Poke(mem, idx, c) == [mem EXCEPT ![idx + 1] = c]

\* buf_init
buf_init(size) ==
    [mem |-> [i \in 1..(size + 1) |-> IF i = 1 /\ size > 0 THEN 0 ELSE -1],
     pos |-> 0, size |-> size]

\* mutation: the room test forgets the terminator
CanAppend_NoTerminator(pos, size) == pos < size

\* b->pos + 1 < b->size
CanAppend(pos, size) == pos + 1 < size

\* buf_append_char
buf_append_char(b, c) ==
    IF CanAppend(b.pos, b.size)
    THEN [b EXCEPT !.mem = Poke(Poke(@, b.pos, c), b.pos + 1, 0),
                   !.pos = @ + 1]
    ELSE b

\* the copy loop of buf_append_str
RECURSIVE CopyWhileRoom(_, _)
CopyWhileRoom(b, s) ==
    IF s = <<>> \/ ~CanAppend(b.pos, b.size) THEN b
    ELSE CopyWhileRoom([b EXCEPT !.mem = Poke(@, b.pos, Head(s)),
                                 !.pos = @ + 1], Tail(s))

\* buf_append_str
buf_append_str(b, s) ==
    LET c == CopyWhileRoom(b, s)
    IN  IF c.size > 0
        THEN [c EXCEPT !.mem = Poke(@, IF c.pos < c.size THEN c.pos
                                       ELSE c.size - 1, 0)]
        ELSE c

\* get_username: pw_name of the current user
get_username == <<117, 115>>

\* mutation: no byte counts as a parameter byte
IsCsiParamByte_None(c) == FALSE

\* *p && *p < 0x40
IsCsiParamByte(c) == c # 0 /\ SignedChar(c) < 64

\* the loop that copies the parameter bytes of ESC '[': the buffer and the
\* position after them
RECURSIVE CopyCsiParams(_, _, _)
CopyCsiParams(str, p, b) ==
    IF IsCsiParamByte(At(str, p))
    THEN CopyCsiParams(str, p + 1, buf_append_char(b, At(str, p)))
    ELSE [b |-> b, p |-> p]

IsOctalDigit(c) == c >= 48 /\ c <= 55

\* how many of the bytes from p the octal loop consumes
OctalDigits(str, p) ==
    IF ~IsOctalDigit(At(str, p)) THEN 0
    ELSE IF ~IsOctalDigit(At(str, p + 1)) THEN 1
    ELSE IF ~IsOctalDigit(At(str, p + 2)) THEN 2
    ELSE 3

\* val = val * 8 + (*p - '0') over those bytes
RECURSIVE OctalValue(_, _, _)
OctalValue(str, p, digits) ==
    IF digits = 0 THEN 0
    ELSE OctalValue(str, p, digits - 1) * 8 + (At(str, p + digits - 1) - 48)

\* the switch on the byte after '\', p already past both: the buffer and the
\* position afterwards.  Of the escapes, those the bytes of FmtBytes can spell
BashEscape(str, p, next, b) ==
    CASE next = 110 -> [b |-> buf_append_char(b, 10), p |-> p]
      [] next = 92 -> [b |-> buf_append_char(b, 92), p |-> p]
      [] next = 91 -> [b |-> b, p |-> p]
      [] next = 48 ->
           LET digits == OctalDigits(str, p)
               val == OctalValue(str, p, digits)
           IN  [b |-> IF val <= 255 THEN buf_append_char(b, val) ELSE b,
                p |-> p + digits]
      [] OTHER -> [b |-> buf_append_char(buf_append_char(b, 92), next),
                   p |-> p]

\* the switch on the byte after '%'
ZshEscape(str, p, next, b) ==
    CASE next = 110 -> [b |-> buf_append_str(b, get_username), p |-> p]
      [] next = 37 -> [b |-> buf_append_char(b, 37), p |-> p]
      [] OTHER -> [b |-> buf_append_char(buf_append_char(b, 37), next),
                   p |-> p]

\* mutation: every byte that has a successor starts a bash escape
IsBashEscape_AnyByte(str, p) == At(str, p + 1) # 0

\* *p == '\\' && *(p + 1)
IsBashEscape(str, p) == At(str, p) = 92 /\ At(str, p + 1) # 0

\* *p == '%' && *(p + 1)
IsZshEscape(str, p) == At(str, p) = 37 /\ At(str, p + 1) # 0

\* expand_prompt_escapes from position p on
RECURSIVE ExpandFrom(_, _, _)
ExpandFrom(str, p, b) ==
    IF At(str, p) = 0 THEN b
    ELSE IF At(str, p) = ESC
    THEN LET b1 == buf_append_char(b, ESC)
         IN  IF At(str, p + 1) = 91
             THEN LET c == CopyCsiParams(str, p + 2, buf_append_char(b1, 91))
                  IN  IF At(str, c.p) # 0
                      THEN ExpandFrom(str, c.p + 1,
                                      buf_append_char(c.b, At(str, c.p)))
                      ELSE ExpandFrom(str, c.p, c.b)
             ELSE ExpandFrom(str, p + 1, b1)
    ELSE IF IsBashEscape(str, p)
    THEN LET r == BashEscape(str, p + 2, At(str, p + 1), b)
         IN  ExpandFrom(str, r.p, r.b)
    ELSE IF IsZshEscape(str, p)
    THEN LET r == ZshEscape(str, p + 2, At(str, p + 1), b)
         IN  ExpandFrom(str, r.p, r.b)
    ELSE ExpandFrom(str, p + 1, buf_append_char(b, At(str, p)))

\* expand_prompt_escapes
expand_prompt_escapes(input, size) == ExpandFrom(input, 1, buf_init(size))

\* lle_template_evaluate on a format without ${...}: of the bytes of FmtBytes
\* it takes \n for a newline and \\ for a backslash and leaves the rest
RECURSIVE lle_template_evaluate(_)
lle_template_evaluate(str) ==
    IF str = <<>> THEN <<>>
    ELSE IF Len(str) >= 2 /\ str[1] = 92 /\ str[2] = 110
    THEN <<10>> \o lle_template_evaluate(SubSeq(str, 3, Len(str)))
    ELSE IF Len(str) >= 2 /\ str[1] = 92 /\ str[2] = 92
    THEN <<92>> \o lle_template_evaluate(SubSeq(str, 3, Len(str)))
    ELSE <<str[1]>> \o lle_template_evaluate(Tail(str))

\* lle_prompt_expand
lle_prompt_expand ==
    /\ ex_rc = "none"
    /\ IF ex_size = 0
       THEN /\ ex_rc' = LLE_ERROR_NULL_POINTER
            /\ UNCHANGED ex_buf
       ELSE IF ex_template = "fail"
       THEN /\ ex_rc' = LLE_ERROR_INVALID_PARAMETER
            /\ ex_buf' = buf_init(ex_size)
       ELSE /\ ex_rc' = LLE_SUCCESS
            /\ ex_buf' = expand_prompt_escapes(
                             IF ex_template = "ok"
                             THEN lle_template_evaluate(ex_format)
                             ELSE ex_format, ex_size)
    /\ UNCHANGED <<ex_format, ex_size, ex_template, colorVars,
                   powerlineVars, stripVars, statusVars>>
    /\ UNCHANGED <<workerVars, gitVars, shellVars>>

\* the caller's arguments: a format, an output buffer, a context
InitExpand ==
    /\ lle_async_worker_init(FALSE)
    /\ GitIdle
    /\ NoIntegration
    /\ LifeIdle
    /\ ex_format \in Formats
    /\ ex_size \in OutputSizes
    /\ ex_template \in {"none", "ok", "fail"}
    /\ ex_rc = "none"
    /\ ex_buf = [mem |-> [i \in 1..(ex_size + 1) |-> -1], pos |-> 0,
                 size |-> ex_size]
    /\ ColorIdle
    /\ PowerlineIdle
    /\ StripIdle
    /\ StatusIdle

NextExpand == lle_prompt_expand

SpecExpand == InitExpand /\ [][NextExpand]_vars

(***************************************************************************)
(* Hex colours: the %F{#RRGGBB} and %K{#RRGGBB} escapes and emit_color.    *)
(***************************************************************************)
\* char esc[32] of emit_color
EXPAND_ESC_MAX == 32

\* the largest hexadecimal digit
MaxHexDigit == 15

HexDigits == 0..MaxHexDigit

\* the green and blue channels tried, as digit pairs: 0x00, 0x2f, 0x30, 0x4a,
\* 0x4b, 0xff (the red channel takes every value)
ChannelSamples == {<<0, 0>>, <<2, 15>>, <<3, 0>>, <<4, 10>>, <<4, 11>>,
                   <<15, 15>>}

\* ctx->color_depth: none, basic, 256 colours, truecolor
ColorDepths == 0..3

\* sscanf "%2x" of two hexadecimal digits
HexByte(hi, lo) == 16 * hi + lo

\* snprintf "%d" / "%u" of a number that is not negative
RECURSIVE DecimalBytes(_)
DecimalBytes(n) ==
    IF n < 10 THEN <<48 + n>>
    ELSE DecimalBytes(n \div 10) \o <<48 + (n % 10)>>

\* mutation: the cube index without the threshold
CubeIndex_NoThreshold(c) == (c - 35) \div 40

\* (c > 47) ? (c - 35) / 40 : 0
CubeIndex(c) == IF c > 47 THEN (c - 35) \div 40 ELSE 0

\* 16 + 36 * ri + 6 * gi + bi
PaletteIndex(r, g, b) ==
    16 + 36 * CubeIndex(r) + 6 * CubeIndex(g) + CubeIndex(b)

\* emit_color for a spec "#RRGGBB" of six hexadecimal digits: the string
\* handed to buf_append_str
emit_color(hex, color_depth, fg) ==
    LET r == HexByte(hex[1], hex[2])
        g == HexByte(hex[3], hex[4])
        bl == HexByte(hex[5], hex[6])
        sgr == DecimalBytes(IF fg THEN 38 ELSE 48)
    IN  IF color_depth = 0 THEN <<>>
        ELSE IF color_depth >= 3
        THEN <<ESC, 91>> \o sgr \o <<59, 50, 59>> \o DecimalBytes(r) \o <<59>>
               \o DecimalBytes(g) \o <<59>> \o DecimalBytes(bl) \o <<109>>
        ELSE IF color_depth >= 2
        THEN <<ESC, 91>> \o sgr \o <<59, 53, 59>>
               \o DecimalBytes(PaletteIndex(r, g, bl)) \o <<109>>
        ELSE <<>>

\* the cases 'F' and 'K' of expand_prompt_escapes with a braced hex colour,
\* into an output buffer that holds the whole sequence
ExpandColorEscape ==
    /\ ~col_out.done
    /\ col_out' =
         [done |-> TRUE,
          bytes |-> LET b == buf_append_str(buf_init(EXPAND_ESC_MAX),
                                            emit_color(col_hex, col_depth,
                                                       col_fg))
                    IN  CString(b.mem, b.size)]
    /\ UNCHANGED <<col_hex, col_depth, col_fg, expandVars, powerlineVars,
                   stripVars, statusVars>>
    /\ UNCHANGED <<workerVars, gitVars, shellVars>>

InitColor ==
    /\ lle_async_worker_init(FALSE)
    /\ GitIdle
    /\ NoIntegration
    /\ LifeIdle
    /\ ExpandIdle
    /\ PowerlineIdle
    /\ StripIdle
    /\ StatusIdle
    /\ \E r1 \in HexDigits, r2 \in HexDigits,
          g \in ChannelSamples, b \in ChannelSamples :
         col_hex = <<r1, r2>> \o g \o b
    /\ col_depth \in ColorDepths
    /\ col_fg \in BOOLEAN
    /\ col_out = NoColor

NextColor == ExpandColorEscape

SpecColor == InitColor /\ [][NextColor]_vars

(***************************************************************************)
(* Powerline renderer (src/src/lle/prompt/powerline_renderer.c), from the  *)
(* rendered segments on: stripping, left-to-right assembly, the buffer.    *)
(***************************************************************************)
\* most segments in one render
MaxSegs == 2
\* colours are the basic colours 1..MaxColor, or 0 for none
MaxColor == 1
\* the output size that is too small for a render, besides 0 and one that
\* holds every render
PlSmallOut == 16
\* sizeof(ps->content), scaled: longer than any content tried
LLE_SEGMENT_OUTPUT_MAX == 8

\* U+E0B0, the default of separator_left
DefaultSeparatorLeft == <<238, 130, 176>>

\* separator_left of the theme: not set, ' ', '>', U+E0B2
Separators == {<<>>, <<32>>, <<62>>, <<238, 130, 178>>}

\* what the segments rendered: nothing, "a", ESC[m followed by ">", and the
\* default separator glyph itself
RawContents == {<<>>, <<97>>, <<ESC, 91, 109, 62>>, <<238, 130, 176>>}

Colors == 0..MaxColor

Segments == [content : RawContents, fg : Colors, bg : Colors]

RECURSIVE SeqsUpTo(_, _)
SeqsUpTo(S, n) ==
    IF n = 0 THEN {<<>>}
    ELSE LET shorter == SeqsUpTo(S, n - 1)
         IN  shorter \cup {Append(q, x) : q \in {t \in shorter : Len(t) = n - 1},
                                          x \in S}

PlBigOut == 32 * MaxSegs + 1

PlSizes == {0, PlSmallOut, PlBigOut}

\* lle_color_to_ansi: the SGR sequence of a basic colour (ESC[3cm as
\* foreground, ESC[4cm as background), nothing for a colour of mode none
lle_color_to_ansi(color, fg) ==
    IF color = 0 THEN <<>>
    ELSE <<ESC, 91, IF fg THEN 51 ELSE 52, 48 + color, 109>>

\* "\033[0m"
AnsiReset == <<ESC, 91, 48, 109>>

\* buf_append
buf_append(a, str) ==
    IF a.pos + Len(str) >= a.size THEN a
    ELSE [a EXCEPT
            !.mem = SubSeq(@, 1, a.pos) \o str \o <<0>>
                      \o SubSeq(@, a.pos + Len(str) + 2, Len(@)),
            !.pos = @ + Len(str)]

\* mutation: only 'm' ends a sequence
IsFinalByte_OnlySgr(c) == c = 109

\* (unsigned char)c >= 0x40 && (unsigned char)c <= 0x7E
IsFinalByte(c) == c >= 64 /\ c <= 126

\* what strip_ansi can reach through src: the string, its terminator, and
\* the bytes that follow the terminator inside the same object.  mem[i] is
\* src[i - 1]; the terminator is mem[Len(src) + 1]
StripMem(src, tail) == src \o <<0>> \o tail

\* the inner while of strip_ansi from mem[i] on: the index of the final
\* byte or of a NUL, or one past the object if it runs off its end
RECURSIVE SkipToFinalByte(_, _)
SkipToFinalByte(mem, i) ==
    IF i <= Len(mem) /\ mem[i] # 0 /\ ~IsFinalByte(mem[i])
    THEN SkipToFinalByte(mem, i + 1)
    ELSE i

\* the for loop of strip_ansi from mem[i] on; dst is what was copied so
\* far.  last is the last index read; fault: that index lies outside the
\* object, where the read is undefined and the call is taken to end
RECURSIVE StripFrom(_, _, _, _)
StripFrom(mem, i, dst, dst_size) ==
    IF i > Len(mem)
    THEN [done |-> TRUE, dst |-> dst, last |-> i, fault |-> TRUE]
    ELSE IF mem[i] = 0
    THEN [done |-> TRUE, dst |-> dst, last |-> i, fault |-> FALSE]
    ELSE IF mem[i] = ESC /\ i + 1 > Len(mem)
    THEN [done |-> TRUE, dst |-> dst, last |-> i + 1, fault |-> TRUE]
    ELSE IF mem[i] = ESC /\ mem[i + 1] = 91
    THEN LET j == SkipToFinalByte(mem, i + 2)
         IN  IF j > Len(mem)
             THEN [done |-> TRUE, dst |-> dst, last |-> j, fault |-> TRUE]
             ELSE StripFrom(mem, j + 1, dst, dst_size)
    ELSE StripFrom(mem, i + 1,
                   IF Len(dst) + 1 < dst_size THEN Append(dst, mem[i])
                   ELSE dst, dst_size)

\* strip_ansi, on a src followed in memory by tail
strip_ansi(src, tail, dst_size) ==
    StripFrom(StripMem(src, tail), 1, <<>>, dst_size)

\* memset(&output, 0, sizeof(output)): what follows the content a segment
\* rendered into output.content
ZeroFill(content) ==
    [k \in 1..(LLE_SEGMENT_OUTPUT_MAX - Len(content) - 1) |-> 0]

\* collect_visible_segments, from the segments' rendered outputs on: one
\* without content is skipped, the others are stored stripped
RECURSIVE collect_visible_segments(_)
collect_visible_segments(segs) ==
    IF segs = <<>> THEN <<>>
    ELSE IF Head(segs).content = <<>>
    THEN collect_visible_segments(Tail(segs))
    ELSE <<[Head(segs) EXCEPT
              !.content = strip_ansi(@, ZeroFill(@),
                                     LLE_SEGMENT_OUTPUT_MAX).dst]>>
           \o collect_visible_segments(Tail(segs))

\* the block of a segment: bg, fg, space, content, space
BlockPieces(seg) ==
    <<lle_color_to_ansi(seg.bg, FALSE), lle_color_to_ansi(seg.fg, TRUE),
      <<32>>, seg.content, <<32>>>>

\* mutation: the transition colours the wrong way round
BetweenPieces_Swapped(seg, next, separator) ==
    <<lle_color_to_ansi(next.bg, TRUE), lle_color_to_ansi(seg.bg, FALSE),
      separator>>

\* the separator between two segments: fg = this bg, bg = next bg
BetweenPieces(seg, next, separator) ==
    <<lle_color_to_ansi(seg.bg, TRUE), lle_color_to_ansi(next.bg, FALSE),
      separator>>

\* mutation: no trailing separator
FinalPieces_NoSeparator(seg, separator) ==
    <<AnsiReset, lle_color_to_ansi(seg.bg, TRUE), AnsiReset>>

\* the separator after the last segment: reset, fg = this bg, reset
FinalPieces(seg, separator) ==
    <<AnsiReset, lle_color_to_ansi(seg.bg, TRUE), separator, AnsiReset>>

\* the strings render_left_to_right appends for segments i.., in order
RECURSIVE LeftToRightPieces(_, _, _)
LeftToRightPieces(segs, i, separator) ==
    IF i > Len(segs) THEN <<>>
    ELSE BlockPieces(segs[i])
           \o (IF i + 1 <= Len(segs)
               THEN BetweenPieces(segs[i], segs[i + 1], separator)
               ELSE FinalPieces(segs[i], separator))
           \o LeftToRightPieces(segs, i + 1, separator)

RECURSIVE AppendAll(_, _)
AppendAll(a, pieces) ==
    IF pieces = <<>> THEN a
    ELSE AppendAll(buf_append(a, Head(pieces)), Tail(pieces))

\* output[0] = '\0'; append_ctx_t a = {output, output_size, 0}
append_ctx(size) ==
    [mem |-> <<0>> \o [i \in 1..size |-> -1], pos |-> 0, size |-> size]

\* render_left_to_right
render_left_to_right(segs, separator, a) ==
    AppendAll(a, LeftToRightPieces(segs, 1, separator))

\* if (!separator[0]) separator = "\xee\x82\xb0"
SeparatorLeft(symbol) == IF symbol = <<>> THEN DefaultSeparatorLeft ELSE symbol

\* lle_powerline_render, direction LLE_POWERLINE_LEFT_TO_RIGHT
lle_powerline_render ==
    /\ pl_rc = "none"
    /\ IF pl_size = 0
       THEN /\ pl_rc' = LLE_ERROR_INVALID_PARAMETER
            /\ UNCHANGED <<pl_visible, pl_out>>
       ELSE /\ pl_rc' = LLE_SUCCESS
            /\ pl_visible' = collect_visible_segments(pl_segments)
            /\ pl_out' = render_left_to_right(pl_visible',
                                              SeparatorLeft(pl_separator),
                                              append_ctx(pl_size))
    /\ UNCHANGED <<pl_segments, pl_separator, pl_size, expandVars, colorVars,
                   stripVars, statusVars>>
    /\ UNCHANGED <<workerVars, gitVars, shellVars>>

InitPowerline ==
    /\ lle_async_worker_init(FALSE)
    /\ GitIdle
    /\ NoIntegration
    /\ LifeIdle
    /\ ExpandIdle
    /\ ColorIdle
    /\ StripIdle
    /\ StatusIdle
    /\ pl_segments \in SeqsUpTo(Segments, MaxSegs)
    /\ pl_separator \in Separators
    /\ pl_size \in PlSizes
    /\ pl_rc = "none"
    /\ pl_visible = <<>>
    /\ pl_out = [mem |-> [i \in 1..(pl_size + 1) |-> -1], pos |-> 0,
                 size |-> pl_size]

NextPowerline == lle_powerline_render

SpecPowerline == InitPowerline /\ [][NextPowerline]_vars

(***************************************************************************)
(* strip_ansi on its own: one call per content, with every memory that can *)
(* follow the content's terminator.                                        *)
(***************************************************************************)
\* longest content
MaxSrc == 4

\* the bytes contents are made of: ESC, '1', '[', 'a', 'm' and 0xEE
StripBytes == {ESC, 49, 91, 97, 109, 238}

Contents == StringsUpTo(StripBytes, MaxSrc)

\* what follows the terminator: the end of the object, a zeroed byte, or
\* bytes an earlier use left there
Tails == {<<>>, <<0>>, <<97, 0>>}

\* ps->content_len = strip_ansi(output.content, ps->content,
\*                              sizeof(ps->content))
StripContent ==
    /\ ~st_out.done
    /\ \E tail \in Tails :
         st_out' = strip_ansi(st_src, tail, LLE_SEGMENT_OUTPUT_MAX)
    /\ UNCHANGED <<st_src, expandVars, colorVars, powerlineVars, statusVars>>
    /\ UNCHANGED <<workerVars, gitVars, shellVars>>

InitStrip ==
    /\ lle_async_worker_init(FALSE)
    /\ GitIdle
    /\ NoIntegration
    /\ LifeIdle
    /\ ExpandIdle
    /\ ColorIdle
    /\ PowerlineIdle
    /\ StatusIdle
    /\ st_src \in Contents
    /\ st_out = NoStrip

NextStrip == StripContent

SpecStrip == InitStrip /\ [][NextStrip]_vars

(***************************************************************************)
(* lle_async_get_git_status on its own (src/src/lle/core/async_worker.c):  *)
(* one call per outcome of the probes, and per output of the branch and    *)
(* porcelain probes.                                                       *)
(***************************************************************************)
\* longest porcelain output
MaxPorcelain == 5

\* the bytes porcelain outputs are made of: newline, ' ', '?', 'M'
PorcelainBytes == {10, 32, 63, 77}

Porcelains == StringsUpTo(PorcelainBytes, MaxPorcelain)

\* what `branch --show-current` prints: nothing (detached), or a name
Branches == {<<>>, <<109>>}

\* strchr(line, '\n'): the index of the first newline from p on, 0 for NULL
RECURSIVE NextNewline(_, _)
NextNewline(str, p) ==
    IF At(str, p) = 0 THEN 0
    ELSE IF str[p] = 10 THEN p
    ELSE NextNewline(str, p + 1)

\* mutation: a '?' line goes on to the staged and unstaged tests
CountLine_Fallthrough(str, line, counts) ==
    [counts EXCEPT
       !.untracked_count = @ + (IF At(str, line) = 63 THEN 1 ELSE 0),
       !.staged_count =
           @ + (IF At(str, line) # 32 /\ At(str, line) # 63 THEN 1 ELSE 0),
       !.unstaged_count =
           @ + (IF At(str, line + 1) # 32 /\ At(str, line + 1) # 63
                THEN 1 ELSE 0)]

\* the body of the parse loop for the line that starts at index line
CountLine(str, line, counts) ==
    IF At(str, line) = 63
    THEN [counts EXCEPT !.untracked_count = @ + 1]
    ELSE IF At(str, line) # 0 /\ At(str, line + 1) # 0
    THEN [counts EXCEPT
            !.staged_count =
                @ + (IF At(str, line) # 32 /\ At(str, line) # 63
                     THEN 1 ELSE 0),
            !.unstaged_count =
                @ + (IF At(str, line + 1) # 32 /\ At(str, line + 1) # 63
                     THEN 1 ELSE 0)]
    ELSE counts

\* while (*line) { ...; nl = strchr(line, '\n'); if (nl) line = nl + 1;
\*                 else break; }
RECURSIVE ParseFrom(_, _, _)
ParseFrom(str, line, counts) ==
    IF At(str, line) = 0 THEN counts
    ELSE LET nl == NextNewline(str, line)
         IN  IF nl # 0
             THEN ParseFrom(str, nl + 1, CountLine(str, line, counts))
             ELSE CountLine(str, line, counts)

\* the parse of the porcelain buffer
ParsePorcelain(str) == ParseFrom(str, 1, NoCounts)

\* lle_async_get_git_status, with the status data it fills in
GetGitStatus ==
    /\ ~gs_status.done
    /\ gs_status' =
         LET resp == lle_async_get_git_status(gs_outs)
         IN  [done |-> TRUE,
              is_git_repo |-> resp.is_git_repo,
              is_detached |-> resp.is_detached,
              branch |-> IF resp.is_git_repo
                            /\ run_git_in_dir(gs_outs[P_BRANCH])
                         THEN gs_branch ELSE <<>>,
              counts |-> IF resp.is_git_repo
                            /\ run_git_in_dir(gs_outs[P_PORCELAIN])
                         THEN ParsePorcelain(gs_porcelain) ELSE NoCounts,
              launched |-> ProbesLaunched(gs_outs)]
    /\ UNCHANGED <<gs_outs, gs_branch, gs_porcelain, expandVars, colorVars,
                   powerlineVars, stripVars>>
    /\ UNCHANGED <<workerVars, gitVars, shellVars>>

\* the probes' outcomes are varied with nothing printed, what the probes
\* print with every probe succeeding
InitStatus ==
    /\ lle_async_worker_init(FALSE)
    /\ GitIdle
    /\ NoIntegration
    /\ LifeIdle
    /\ ExpandIdle
    /\ ColorIdle
    /\ PowerlineIdle
    /\ StripIdle
    /\ gs_outs \in [1..NumProbes -> GitOutcomes]
    /\ gs_branch \in Branches
    /\ gs_porcelain \in IF \A p \in 1..NumProbes : gs_outs[p] = GitOk
                        THEN Porcelains ELSE {<<>>}
    /\ gs_status = NoStatus

NextStatus == GetGitStatus

SpecStatus == InitStatus /\ [][NextStatus]_vars

(***************************************************************************)
(* Properties of the async worker (specification Spec).                    *)
(***************************************************************************)
EventAt(kind, id) ==
    {k \in 1..Len(events) : events[k].kind = kind /\ events[k].id = id}

CallbackCount(id) == Cardinality(EventAt("callback", id))

AcceptedIds == {accepted[i] : i \in 1..Len(accepted)}

\* requests dequeued and not yet counted in total_completed
InFlight == IF tpc \in {"dispatch", "complete"} THEN 1 ELSE 0

\* the step is a call of lle_async_worker_submit
SubmitStep == lastOp' = "submit" /\ ncalls' = ncalls + 1

\* C1: requests are dispatched in the order their submits were accepted: when
\* the dispatch of B begins, every request accepted before B has already been
\* dispatched and, with a callback registered, its callback has been invoked.
C1_DispatchInSubmissionOrder ==
    ~uaf =>
      \A i, j \in 1..Len(accepted) : i < j =>
        \A k \in EventAt("dispatch", accepted[j]) :
          /\ \E m \in EventAt("dispatch", accepted[i]) : m < k
          /\ on_complete => \E m \in EventAt("callback", accepted[i]) : m < k

C1_Witness ==
    /\ on_complete /\ ~uaf
    /\ Len(accepted) >= 3
    /\ EventAt("dispatch", accepted[3]) # {}
    /\ EventAt("callback", accepted[2]) # {}

\* C2 as stated: every accepted request gets its callback exactly once over
\* the worker's lifetime, destroy included, for any sequence of calls.
C2_ExactlyOnceByDestroy ==
    on_complete =>
      /\ \A id \in AcceptedIds : CallbackCount(id) <= 1
      /\ destroyed => \A id \in AcceptedIds : CallbackCount(id) = 1

\* C2 amended: the callback of an accepted request is invoked at most once;
\* once the consumer thread has left its loop (it drains the queue first) every
\* accepted request has had exactly one callback; a request still queued when
\* destroy runs is freed and never gets a callback.
C2_AtMostOnceAndDrainedAtExit ==
    (on_complete /\ ~uaf) =>
      /\ \A id \in AcceptedIds : CallbackCount(id) <= 1
      /\ tpc \in {"exited", "none"} =>
           \A id \in AcceptedIds : CallbackCount(id) = 1
      /\ \A id \in freed : CallbackCount(id) = 0

C2_Witness ==
    /\ on_complete /\ ~uaf
    /\ tpc = "exited"
    /\ Len(accepted) >= 2
    /\ \A id \in AcceptedIds : CallbackCount(id) = 1

\* C3: in every state of a live worker
\* total_completed + queue_size + in_flight = total_requests.
C3_RequestConservation ==
    ~destroyed => total_completed + queue_size + InFlight = total_requests

C3_Witness ==
    /\ ~destroyed
    /\ total_completed >= 1
    /\ queue_size >= 1
    /\ InFlight = 1

\* C7 as stated: a response whose git probes hit a timeout carries a
\* non-success result code when it is handed to the callback.
C7_TimeoutGivesNonSuccess ==
    \A k \in 1..Len(events) :
        (events[k].kind = "callback" /\ events[k].timed_out)
            => events[k].result # LLE_SUCCESS

\* C8 as stated: total_timeouts, as reported by get_stats, counts every
\* request whose dispatch hit a command timeout.
C8_TimeoutsCounted ==
    ~destroyed =>
      lle_async_worker_get_stats.total_timeouts >=
        Cardinality({k \in 1..Len(events) :
                        events[k].kind = "callback" /\ events[k].timed_out})

\* C9: a submit on a worker that is not in the running state (not started,
\* shutdown requested, or joined) returns invalid_state and changes neither
\* the queue, queue_size, next_request_id nor total_requests.
C9_SubmitRejectedUnlessRunning ==
    [][(SubmitStep /\ (~running \/ shutdown_requested))
          => /\ lastRet' = LLE_ERROR_INVALID_STATE
             /\ UNCHANGED <<queue, queue_size, next_request_id,
                            total_requests>>]_vars

C9_Witness ==
    /\ lastOp = "submit"
    /\ lastRet = LLE_ERROR_INVALID_STATE
    /\ running /\ shutdown_requested
    /\ queue_size >= 1

\* C10 as stated: queue_size never exceeds the limit, and a submit made while
\* the queue is full returns resource_exhausted and changes nothing.
C10_FullQueueAlwaysExhausted ==
    /\ [](queue_size <= LLE_ASYNC_MAX_QUEUE_SIZE)
    /\ [][(SubmitStep /\ queue_size >= LLE_ASYNC_MAX_QUEUE_SIZE)
             => /\ lastRet' = LLE_ERROR_RESOURCE_EXHAUSTED
                /\ UNCHANGED <<queue, queue_size, next_request_id,
                               total_requests>>]_vars

\* C10 amended: queue_size never exceeds the limit; a submit made to a worker
\* that accepts requests (running, no shutdown requested) while the queue is
\* full returns resource_exhausted; a submit on a full queue never changes
\* the queue, next_request_id or total_requests.
C10_QueueBounded ==
    /\ [](queue_size <= LLE_ASYNC_MAX_QUEUE_SIZE)
    /\ [][(SubmitStep /\ queue_size >= LLE_ASYNC_MAX_QUEUE_SIZE)
             => /\ (running /\ ~shutdown_requested)
                      => lastRet' = LLE_ERROR_RESOURCE_EXHAUSTED
                /\ lastRet' # LLE_SUCCESS
                /\ UNCHANGED <<queue, queue_size, next_request_id,
                               total_requests>>]_vars

C10_Witness ==
    /\ lastOp = "submit"
    /\ lastRet = LLE_ERROR_RESOURCE_EXHAUSTED
    /\ queue_size = LLE_ASYNC_MAX_QUEUE_SIZE

\* indices of the callback events
Callbacks == {k \in 1..Len(events) : events[k].kind = "callback"}

\* C11: accepted requests get the ids 1, 2, 3, ... in acceptance order, with
\* no gap; a rejected submit consumes no id (the counter always stands one
\* past the number of accepted requests); the response the thread builds, and
\* every event it reports, carries the id of the request it dequeued.
C11_IdsDenseAndEchoed ==
    /\ \A i \in 1..Len(accepted) : accepted[i] = i
    /\ next_request_id = Len(accepted) + 1
    /\ tpc \in {"complete", "callback"} =>
         (tresp.id = treq.id /\ treq.id \in AcceptedIds)
    /\ \A k \in 1..Len(events) : events[k].id \in AcceptedIds

C11_Witness ==
    /\ Len(accepted) >= 2
    /\ lastOp = "submit"
    /\ lastRet = LLE_ERROR_RESOURCE_EXHAUSTED
    /\ EventAt("callback", 2) # {}

\* C12: when the callback of a request is invoked its response is populated
\* (result code set, id of an accepted request) and total_completed already
\* counts it: the number of callbacks invoked so far, this one included,
\* never exceeds total_completed.
C12_CountedBeforeCallback ==
    ~uaf =>
      /\ Cardinality(Callbacks) <= total_completed
      /\ \A k \in Callbacks :
           /\ events[k].result # "none"
           /\ events[k].id \in AcceptedIds

C12_Witness ==
    /\ ~uaf
    /\ tpc = "callback"
    /\ Cardinality(Callbacks) = 1
    /\ total_completed = 2

\* C13 as stated: queue, queue_size, the statistics counters,
\* shutdown_requested and next_request_id are only accessed with the queue
\* mutex held; the running flag is the only member read without it.
C13_OnlyRunningReadUnlocked == unlocked \subseteq {"running"}

\* C14 as stated: a request that was queued when shutdown was requested is
\* not dispatched and gets no callback.
C14_QueuedAtShutdownNotDispatched ==
    \A id \in at_shutdown :
        EventAt("dispatch", id) = {} /\ CallbackCount(id) = 0

\* C14 amended: the consumer thread drains the queue after a shutdown
\* request: by the time it has left its loop every request that was queued
\* at the shutdown request has been dispatched and, with a callback
\* registered, has had its callback; only a request still queued when destroy
\* runs is freed without dispatch.
C14_QueuedAtShutdownDrained ==
    /\ tpc \in {"exited", "none"} =>
         \A id \in at_shutdown :
             /\ EventAt("dispatch", id) # {}
             /\ on_complete => CallbackCount(id) = 1
    /\ \A id \in freed : EventAt("dispatch", id) = {}

C14_Witness ==
    /\ tpc = "exited"
    /\ on_complete
    /\ Cardinality(at_shutdown) >= 2
    /\ \A id \in at_shutdown : CallbackCount(id) = 1

\* C15 as stated: destroy may be called in any lifecycle state; afterwards
\* nothing is left queued and the consumer thread never touches the worker
\* again.
C15_DestroySafeInAnyState ==
    destroyed => (queue = <<>> /\ ~uaf)

\* C16: at most one consumer thread exists at any time (the thread position
\* accounts for the only thread created and not joined), and a start on a
\* running worker fails with invalid_parameter without creating a thread.
C16_AtMostOneConsumerThread ==
    /\ [](nthreads <= 1 /\ nthreads = (IF tpc = "none" THEN 0 ELSE 1))
    /\ [][(lastOp' = "start" /\ ncalls' = ncalls + 1 /\ running)
             => /\ lastRet' = LLE_ERROR_INVALID_PARAMETER
                /\ UNCHANGED <<nthreads, tpc, running>>]_vars

C16_Witness ==
    /\ lastOp = "start"
    /\ lastRet = LLE_ERROR_INVALID_PARAMETER
    /\ nthreads = 1
    /\ tpc = "exited"

(***************************************************************************)
(* Properties of the subprocess runner (specifications SpecGit,            *)
(* SpecGitFair).                                                           *)
(***************************************************************************)
IsPrefix(a, b) == Len(a) <= Len(b) /\ \A i \in 1..Len(a) : a[i] = b[i]

\* the two escalations kill_child can perform
EscalationGraceful == <<"SIGTERM", "grace", "reap_nohang_reaped">>
EscalationForced ==
    <<"SIGTERM", "grace", "reap_nohang_running", "SIGKILL", "reap_blocking">>

\* C4 as stated: on every return path that follows a successful fork the
\* child has been reaped by waitpid before the function returns.
C4_ChildReapedOnReturn ==
    (gpc = "returned" /\ child # "none") => child = "reaped"

\* C5 as stated: the call eventually returns, whatever the child does.
C5_EventuallyReturns == <>(gpc = "returned")

\* C6: after the I/O wait times out the runner sends SIGTERM, waits the grace
\* period, reaps without blocking; it sends SIGKILL only if that reap found
\* the child running, and follows it with a blocking reap; the call returns
\* {exit_status = -1, timed_out = true}.
C6_EscalationOrder ==
    g_path = "timeout" =>
      /\ IsPrefix(g_calls, EscalationGraceful)
           \/ IsPrefix(g_calls, EscalationForced)
      /\ gpc = "returned" =>
           /\ g_calls \in {EscalationGraceful, EscalationForced}
           /\ g_result = [exit_status |-> -1, timed_out |-> TRUE]

C6_Witness ==
    /\ g_path = "timeout"
    /\ gpc = "returned"
    /\ g_calls = EscalationForced
    /\ child_ignores_term

(***************************************************************************)
(* Properties of the shell integration (specification SpecInteg).          *)
(***************************************************************************)
\* the calls of lle_record_ctrl_g made on a live integration
Presses == {k \in 1..Len(ilog) : ilog[k].op = "ctrl_g" /\ ilog[k].integ}

\* the press before call i, 0 if there is none
PrevPress(i) ==
    LET P == {k \in Presses : k < i}
    IN IF P = {} THEN 0 ELSE CHOOSE k \in P : \A j \in P : j <= k

\* the call appended to the log by this step invoked lle_hard_reset
HardResetStep ==
    /\ Len(ilog') = Len(ilog) + 1
    /\ ilog'[Len(ilog')].resets > 0

C19_ThresholdEntersRecovery ==
    \A i \in 1..Len(ilog) :
        (ilog[i].op = "error" /\ ilog[i].integ) =>
          IF ilog[i].e0 + 1 < LLE_ERROR_THRESHOLD
          THEN ilog[i].e1 = ilog[i].e0 + 1 /\ ilog[i].resets = 0
          ELSE /\ ilog[i].resets = 1
               /\ ilog[i].h1 = ilog[i].h0 + 1
               /\ ilog[i].rm = TRUE

\* C20: every lle_hard_reset saves the history (when there is an editor with a
\* history system and HOME is set) before it destroys the editor, and creates
\* the editor last; it returns with error_count and ctrl_g_count at 0 and
\* hard_reset_count one higher, and leaves the composer, the event hub and the
\* session arena as they were.
C20_HardResetOrderAndFrame ==
    [][HardResetStep =>
         /\ reset_trace' \in {<<"save", "destroy", "create">>,
                              <<"destroy", "create">>, <<"create">>}
         /\ (editor /\ history_system /\ home)
               => reset_trace' = <<"save", "destroy", "create">>
         /\ editor => reset_trace' # <<"create">>
         /\ error_count' = 0
         /\ ctrl_g_count' = 0
         /\ hard_reset_count' = hard_reset_count + 1
         /\ UNCHANGED <<prompt_composer, event_hub, session_arena>>]_vars

C20_Witness ==
    /\ Len(ilog) >= 3
    /\ ilog[Len(ilog)].op = "hard_reset"
    /\ ilog[Len(ilog)].c0 = 2
    /\ ilog[Len(ilog)].e0 = 1
    /\ reset_trace = <<"save", "destroy", "create">>
    /\ editor
    /\ prompt_composer /\ event_hub /\ session_arena
    /\ error_count = 0 /\ ctrl_g_count = 0
    /\ hard_reset_count = 1

(***************************************************************************)
(* Properties of the integration lifecycle and of the prompt variables     *)
(* (specification SpecLife).                                               *)
(***************************************************************************)
\* a step that is a call of the lifecycle operation op
LifeStep(op) == nlife' = nlife + 1 /\ lastLife'.op = op

\* everything but the call bookkeeping
lifeState == <<g_lle_integration, integFields, lifecycleVars, envVars, PS1,
               PROMPT, s_rendered_ps1>>

NoDuplicates(s) == \A i, j \in 1..Len(s) : s[i] = s[j] => i = j

\* C21: in any sequence of init, shutdown and at-exit handler entries there is
\* at most one integration instance at a time, the at-exit handler is
\* registered at most once, and no instance is torn down twice; init on an
\* initialised instance returns success and changes nothing; a shutdown
\* without an instance, and a handler entry after the first, change nothing.
C21_SingleInstanceSingleTeardown ==
    /\ [](n_instances <= 1 /\ n_atexit <= 1 /\ NoDuplicates(torn))
    /\ [][ /\ (LifeStep("init") /\ g_lle_integration)
              => (lastLife'.ret = LLE_SUCCESS /\ UNCHANGED lifeState)
           /\ (LifeStep("shutdown") /\ ~g_lle_integration)
              => UNCHANGED lifeState
           /\ (LifeStep("atexit") /\ shutdown_complete)
              => UNCHANGED lifeState ]_vars

\* an instance was made and torn down by the at-exit handler, a second one was
\* made, and the handler was entered again
C21_Witness ==
    /\ torn = <<1>>
    /\ n_created = 2
    /\ g_lle_integration
    /\ shutdown_complete
    /\ lastLife = [op |-> "atexit", ret |-> "noop"]

\* the subsystems a trace brought up ("+") or took down ("-"), in order
Marked(trace, sign) ==
    SelectSeq(trace, LAMBDA e : SubSeq(e, 1, 1) = sign)

Names(trace) == [i \in 1..Len(trace) |-> SubSeq(trace[i], 2, Len(trace[i]))]

Reversed(s) == [i \in 1..Len(s) |-> s[Len(s) + 1 - i]]

\* C22: after a failed lle_shell_integration_init, g_lle_integration is NULL
\* and everything the call brought up (session arena, event hub, shell-hook
\* bridge) was taken down again, in reverse order of creation.
C22_FailedInitTearsDownAll ==
    (lastLife.op = "init" /\ lastLife.ret # LLE_SUCCESS)
    => /\ ~g_lle_integration
       /\ Names(Marked(init_trace, "-"))
            = Reversed(Names(Marked(init_trace, "+")))

C24_FallbackIsMinimalPrompt ==
    ( /\ lastLife.op = "update_prompt"
      /\ lastLife.ret \in {"no_composer", "ps1_unset", "ps1_invalid",
                           "expand_failed"} )
    => /\ s_rendered_ps1.text = MinimalFallback(uid_root)
       /\ s_rendered_ps1.nl = (prompt_composer /\ newline_before_prompt)

(***************************************************************************)
(* Properties of prompt expansion (specifications SpecExpand, SpecColor).  *)
(***************************************************************************)
\* the C string lle_prompt_expand left in the output buffer
ExpandOutput == CString(ex_buf.mem, ex_size)

\* C25: a format without backslash, '%' and ESC, expanded without a template
\* context into a buffer larger than the format, succeeds and comes out
\* unchanged.
C25_PlainTextPassesThrough ==
    ( /\ ex_rc # "none"
      /\ ex_template = "none"
      /\ \A i \in 1..Len(ex_format) : ex_format[i] \notin {92, 37, ESC}
      /\ ex_size > Len(ex_format) )
    => /\ ex_rc = LLE_SUCCESS
       /\ ExpandOutput = ex_format

\* "[0n" expanded into a buffer with room to spare
C25_Witness ==
    /\ ex_rc = LLE_SUCCESS
    /\ ex_template = "none"
    /\ ex_format = <<91, 48, 110>>
    /\ ex_size = MaxFmt + 1
    /\ ExpandOutput = <<91, 48, 110>>

\* C26: after a call with output_size >= 1, whatever the format and the
\* length of its expansion, the buffer holds a NUL within its output_size
\* bytes, so strlen(output) < output_size, and no cell at or beyond
\* output_size was written.
C26_OutputStaysInBuffer ==
    (ex_rc # "none" /\ ex_size >= 1)
    => /\ \E i \in 1..ex_size : ex_buf.mem[i] = 0
       /\ Len(ExpandOutput) < ex_size
       /\ ex_buf.mem[ex_size + 1] = -1

\* an expansion of four bytes cut down to the one that fits besides the NUL
C26_Witness ==
    /\ ex_rc = LLE_SUCCESS
    /\ ex_template = "none"
    /\ ex_format = <<37, 110, 37, 110>>
    /\ ex_size = 2
    /\ ExpandOutput = <<117>>

\* a CSI sequence: ESC '[', parameter and intermediate bytes (0x20..0x3F), a
\* final byte in 0x40..0x7E
IsCsiSequence(e) ==
    /\ Len(e) >= 3
    /\ e[1] = ESC
    /\ e[2] = 91
    /\ \A i \in 3..(Len(e) - 1) : e[i] >= 32 /\ e[i] <= 63
    /\ e[Len(e)] >= 64 /\ e[Len(e)] <= 126

\* C27: when the format is a CSI sequence E followed by F (no template
\* context, a buffer that holds the whole expansion), the output is E, byte
\* for byte, followed by the expansion of F.
C27_CsiCopiedVerbatim ==
    ( /\ ex_rc # "none"
      /\ ex_template = "none"
      /\ ex_size > Len(ex_format) )
    => \A k \in 3..Len(ex_format) :
         IsCsiSequence(SubSeq(ex_format, 1, k))
         => LET F == SubSeq(ex_format, k + 1, Len(ex_format))
                rest == expand_prompt_escapes(F, ex_size)
            IN  ExpandOutput
                  = SubSeq(ex_format, 1, k) \o CString(rest.mem, ex_size)

\* ESC [ 0 % n: '%' and 'n' inside the sequence, not the user name
C27_Witness ==
    /\ ex_rc = LLE_SUCCESS
    /\ ex_template = "none"
    /\ ex_format = <<ESC, 91, 48, 37, 110>>
    /\ ex_size = MaxFmt + 1
    /\ ExpandOutput = <<ESC, 91, 48, 37, 110>>

\* the colour of the escape, from its digits
ColorChannel(i) == 16 * col_hex[2 * i - 1] + col_hex[2 * i]

\* the cube coordinate the claim gives for a channel value
ClaimedCube(c) == IF c > 47 THEN (c - 35) \div 40 ELSE 0

\* C28: %F{#RRGGBB} (38) and %K{#RRGGBB} (48) give ESC[38;2;r;g;bm at
\* truecolor depth; ESC[38;5;idx m with idx = 16 + 36 ri + 6 gi + bi,
\* ci = (c > 47) ? (c - 35) / 40 : 0, at 256-colour depth, idx within 16..231;
\* and nothing at basic depth.
C28_HexColorByDepth ==
    col_out.done =>
      LET r == ColorChannel(1)
          g == ColorChannel(2)
          b == ColorChannel(3)
          sgr == IF col_fg THEN <<51, 56>> ELSE <<52, 56>>
          idx == 16 + 36 * ClaimedCube(r) + 6 * ClaimedCube(g) + ClaimedCube(b)
      IN  /\ col_depth = 3
             => col_out.bytes
                  = <<ESC, 91>> \o sgr \o <<59, 50, 59>> \o DecimalBytes(r)
                      \o <<59>> \o DecimalBytes(g) \o <<59>> \o DecimalBytes(b)
                      \o <<109>>
          /\ col_depth = 2
             => /\ idx >= 16 /\ idx <= 231
                /\ col_out.bytes
                     = <<ESC, 91>> \o sgr \o <<59, 53, 59>>
                         \o DecimalBytes(idx) \o <<109>>
          /\ col_depth = 1 => col_out.bytes = <<>>

\* %K{#ff4b2f} at 256 colours: ESC[48;5;202m
C28_Witness ==
    /\ col_out.done
    /\ col_hex = <<15, 15, 4, 11, 2, 15>>
    /\ col_depth = 2
    /\ ~col_fg
    /\ col_out.bytes = <<ESC, 91, 52, 56, 59, 53, 59, 50, 48, 50, 109>>

(***************************************************************************)
(* Properties of the powerline renderer (specification SpecPowerline).     *)
(***************************************************************************)
\* the C string lle_powerline_render left in the output buffer
PowerlineOutput == CString(pl_out.mem, pl_size)

\* the separator glyph of the render: the theme's, or U+E0B0
Glyph == IF pl_separator = <<>> THEN <<238, 130, 176>> ELSE pl_separator

\* how often the string g occurs in the string s
Occurrences(g, s) ==
    Cardinality({i \in 1..(Len(s) - Len(g) + 1) :
                   SubSeq(s, i, i + Len(g) - 1) = g})

\* a render into the buffer that holds every render, of segments whose
\* contents do not contain the separator glyph
RenderedInFull ==
    /\ pl_rc = LLE_SUCCESS
    /\ pl_size = PlBigOut
    /\ \A i \in 1..Len(pl_visible) :
         Occurrences(Glyph, pl_visible[i].content) = 0

\* C29 as stated: in a left-to-right render into a large enough buffer, of
\* segments whose contents do not contain the separator glyph, the glyph
\* occurs in the output as often as there are visible segments.
C29_SeparatorCountIsSegmentCount ==
    RenderedInFull => Occurrences(Glyph, PowerlineOutput) = Len(pl_visible)

\* the bytes of the padding and of the colour and reset sequences: space,
\* ESC, '[', ';', 'm', digits
AssemblyBytes == {32, ESC, 91, 59, 109} \cup (48..57)

\* C29, amended: the same for a separator glyph that has no byte in common
\* with the padding and the colour sequences (the default U+E0B0 is one).
C29_GlyphCountIsSegmentCount ==
    (RenderedInFull /\ \A i \in 1..Len(Glyph) : Glyph[i] \notin AssemblyBytes)
    => Occurrences(Glyph, PowerlineOutput) = Len(pl_visible)

\* two visible segments and the default glyph, twice in the output
C29_Witness ==
    /\ RenderedInFull
    /\ pl_separator = <<>>
    /\ Len(pl_visible) = 2
    /\ Occurrences(DefaultSeparatorLeft, PowerlineOutput) = 2

RECURSIVE Flatten(_)
Flatten(pieces) ==
    IF pieces = <<>> THEN <<>> ELSE Head(pieces) \o Flatten(Tail(pieces))

\* what the claim puts into the output for visible segment i
ClaimedLayout(i) ==
    LET seg == pl_visible[i]
        block == lle_color_to_ansi(seg.bg, FALSE)
                   \o lle_color_to_ansi(seg.fg, TRUE)
                   \o <<32>> \o seg.content \o <<32>>
    IN  IF i < Len(pl_visible)
        THEN block \o lle_color_to_ansi(seg.bg, TRUE)
               \o lle_color_to_ansi(pl_visible[i + 1].bg, FALSE) \o Glyph
        ELSE block \o AnsiReset \o lle_color_to_ansi(seg.bg, TRUE) \o Glyph
               \o AnsiReset

\* C30: a left-to-right render that fits the buffer holds, for each visible
\* segment in order, bg(i), fg(i), space, content, space; then, after a
\* segment that is not the last, the separator with foreground bg(i) and
\* background bg(i+1); after the last, a reset, the separator with foreground
\* bg(i), and a reset.
C30_LeftToRightLayout ==
    (pl_rc = LLE_SUCCESS /\ pl_size = PlBigOut)
    => PowerlineOutput
         = Flatten([i \in 1..Len(pl_visible) |-> ClaimedLayout(i)])

\* two visible segments with different backgrounds, the first with an ANSI
\* sequence stripped from its content
C30_Witness ==
    /\ pl_rc = LLE_SUCCESS
    /\ pl_size = PlBigOut
    /\ Len(pl_visible) = 2
    /\ pl_visible[1].bg = 1
    /\ pl_visible[2].bg = 0
    /\ pl_visible[1].fg = 1
    /\ pl_segments[1].content = <<ESC, 91, 109, 62>>
    /\ pl_visible[1].content = <<62>>

(***************************************************************************)
(* Properties of strip_ansi (specification SpecStrip).                     *)
(***************************************************************************)
\* the content after its first final byte; nothing if it has none
RECURSIVE AfterFinalByte(_)
AfterFinalByte(s) ==
    IF s = <<>> THEN <<>>
    ELSE IF Head(s) \in 64..126 THEN Tail(s)
    ELSE AfterFinalByte(Tail(s))

StartsCsi(s) == Len(s) >= 2 /\ s[1] = ESC /\ s[2] = 91

\* the content with every ESC '[' ... final-byte sequence taken out
RECURSIVE CsiRemoved(_)
CsiRemoved(s) ==
    IF s = <<>> THEN <<>>
    ELSE IF StartsCsi(s) THEN CsiRemoved(AfterFinalByte(SubSeq(s, 3, Len(s))))
    ELSE <<Head(s)>> \o CsiRemoved(Tail(s))

\* every ESC '[' of the content is followed by a final byte
RECURSIVE CsiTerminated(_)
CsiTerminated(s) ==
    IF s = <<>> THEN TRUE
    ELSE IF StartsCsi(s)
    THEN /\ \E k \in 3..Len(s) : s[k] \in 64..126
         /\ CsiTerminated(AfterFinalByte(SubSeq(s, 3, Len(s))))
    ELSE CsiTerminated(Tail(s))

\* C31: the content stored for a block is the segment's content with every
\* ESC '[' ... final-byte sequence removed and every other byte kept in
\* order, for a content whose sequences all have their final byte
C31_CsiStrippedFromContent ==
    (st_out.done /\ CsiTerminated(st_src))
        => st_out.dst = CsiRemoved(st_src)

\* two sequences, the first one ended by '[', around a kept byte
C31_Witness ==
    /\ st_out.done
    /\ st_src = <<ESC, 91, 91, 97>>
    /\ st_out.dst = <<97>>

\* C40: strip_ansi reads no byte past the terminator of its input, whatever
\* the input
C40_NoReadPastTerminator ==
    st_out.done => (~st_out.fault /\ st_out.last <= Len(st_src) + 1)

(***************************************************************************)
(* Truncation of the powerline output (specification SpecPowerline).       *)
(***************************************************************************)
\* what a buffer that holds every piece receives for the collected segments
FullRendering ==
    LET a == render_left_to_right(pl_visible, SeparatorLeft(pl_separator),
                                  append_ctx(PlBigOut))
    IN  CString(a.mem, a.size)

\* C32: the output of a render is a NUL-terminated prefix of the full
\* rendering, shorter than the buffer: nothing is emitted after a piece was
\* dropped
C32_TruncatedIsPrefix ==
    pl_rc = LLE_SUCCESS
        => /\ Len(PowerlineOutput) < pl_size
           /\ IsPrefix(PowerlineOutput, FullRendering)

(***************************************************************************)
(* NUL bytes in the expansion (specification SpecExpand).                  *)
(***************************************************************************)
\* C39: no escape puts a NUL byte into the output: after a successful
\* expansion strlen(output) is the number of bytes the scanner appended, so
\* whatever follows an escape in the format is visible
C39_NoNulInjected ==
    ex_rc = LLE_SUCCESS => Len(ExpandOutput) = ex_buf.pos

(***************************************************************************)
(* The registries and the composer (specification SpecLife).               *)
(***************************************************************************)
\* C38: between integration operations the segment and theme registries are
\* initialised exactly when a prompt composer exists
C38_RegistriesFollowComposer ==
    g_registries_initialized <=> (g_lle_integration /\ prompt_composer)

(***************************************************************************)
(* The drain loop of read_all_available (specification SpecGitFair).       *)
(***************************************************************************)
\* the child's stdout is at end of file: nothing in the pipe, no write end
AtEof == pipe_bytes = 0 /\ ~child_out

\* C33: with the capture buffer full, the drain loop ends once the child's
\* stdout is at end of file, whatever the reads before returned
C33_DrainEndsAtEof == (gpc = "rd_drain" /\ AtEof) ~> (gpc # "rd_drain")

(***************************************************************************)
(* Properties of lle_async_get_git_status (specification SpecStatus).      *)
(***************************************************************************)
\* C34: once a probe of the request has timed out no further probe is
\* launched, so a dispatch waits for at most one timeout
C34_NoProbeAfterTimeout ==
    gs_status.done
        => \A p \in gs_status.launched, q \in gs_status.launched :
             gs_outs[p].timed_out => q <= p

\* C36: for a repository is_detached is true exactly when the
\* `symbolic-ref HEAD` probe failed or timed out, whatever the branch probe
\* returned
C36_DetachedBySymrefAlone ==
    (gs_status.done /\ gs_status.is_git_repo)
        => (gs_status.is_detached <=> gs_outs[P_SYMREF] # GitOk)

\* the branch probe succeeded and printed no name, symbolic-ref failed
C36_Witness ==
    /\ gs_status.done
    /\ gs_status.is_git_repo
    /\ gs_outs[P_BRANCH] = GitOk
    /\ gs_status.branch = <<>>
    /\ gs_outs[P_SYMREF] = GitFail
    /\ gs_status.is_detached

\* the lines of an output: the pieces between newlines, without the empty
\* piece behind a final newline
RECURSIVE LinesOf(_, _)
LinesOf(str, cur) ==
    IF str = <<>> THEN (IF cur = <<>> THEN <<>> ELSE <<cur>>)
    ELSE IF Head(str) = 10 THEN <<cur>> \o LinesOf(Tail(str), <<>>)
    ELSE LinesOf(Tail(str), Append(cur, Head(str)))

\* what the statement has one line add to the three counts
ClaimedCounts(l) ==
    IF l = <<>> THEN NoCounts
    ELSE IF l[1] = 63
    THEN [staged_count |-> 0, unstaged_count |-> 0, untracked_count |-> 1]
    ELSE [staged_count |-> IF l[1] \notin {32, 63} THEN 1 ELSE 0,
          unstaged_count |-> IF Len(l) >= 2 /\ l[2] \notin {32, 63}
                             THEN 1 ELSE 0,
          untracked_count |-> 0]

RECURSIVE SumCounts(_)
SumCounts(ls) ==
    IF ls = <<>> THEN NoCounts
    ELSE LET h == ClaimedCounts(Head(ls))
             t == SumCounts(Tail(ls))
         IN  [staged_count |-> h.staged_count + t.staged_count,
              unstaged_count |-> h.unstaged_count + t.unstaged_count,
              untracked_count |-> h.untracked_count + t.untracked_count]

Parsed == gs_status.done /\ \A p \in 1..NumProbes : gs_outs[p] = GitOk

\* C37 as stated: for every porcelain output the counts are the sums of
\* what each line adds
C37_CountsAreLineSums ==
    Parsed => gs_status.counts = SumCounts(LinesOf(gs_porcelain, <<>>))

\* C37, amended: the same for an output whose lines all have at least two
\* characters
C37_CountsAreLineSumsOfFullLines ==
    ( /\ Parsed
      /\ \A k \in DOMAIN LinesOf(gs_porcelain, <<>>) :
           Len(LinesOf(gs_porcelain, <<>>)[k]) >= 2 )
        => gs_status.counts = SumCounts(LinesOf(gs_porcelain, <<>>))

\* "MM" and "??": one staged, one unstaged, one untracked
C37_Witness ==
    /\ Parsed
    /\ gs_porcelain = <<77, 77, 10, 63, 63>>
    /\ gs_status.counts = [staged_count |-> 1, unstaged_count |-> 1,
                           untracked_count |-> 1]

(***************************************************************************)
(* Progress of the async worker (specification SpecLive).                  *)
(***************************************************************************)
\* the request was dequeued and dispatched and, with a callback registered,
\* its completion was reported
Served(id) ==
    /\ EventAt("dispatch", id) # {}
    /\ on_complete => EventAt("callback", id) # {}

\* C35: under fair scheduling of the consumer thread, with every dispatch
\* returning and destroy not called, every accepted request is eventually
\* dequeued and its completion callback eventually fires.  Served(id) once
\* true stays true, so it is enough that from every state with an accepted
\* request not yet served a state is reached where all accepted ones are
C35_AcceptedEventuallyServed ==
    (\E id \in AcceptedIds : ~Served(id))
        ~> (\A id \in AcceptedIds : Served(id))

\* two requests accepted, one of them still queued at the shutdown request,
\* both reported before the thread left its loop
C35_Witness ==
    /\ on_complete
    /\ Len(accepted) >= 2
    /\ at_shutdown # {}
    /\ \A id \in AcceptedIds : Served(id)
    /\ tpc = "exited"

====
